---------------------------- MODULE Spec2Model ----------------------------
(***************************************************************************)
(* A model of the large-file preview core of large_txt_reader              *)
(* (plugins/tauri-plugin-large-file-preview/src/models.rs): the line       *)
(* indexer (LargeFilePreview::open), the line reader with its one-slot     *)
(* window cache (LargeFilePreview::read_lines), the search engine          *)
(* (LargeFilePreview::mmap_search) and the session registry                *)
(* (LARGE_FILE_PREVIEW and the public async functions).                    *)
(*                                                                         *)
(* Files are byte sequences; a byte is a number 0..255.  The sizes of the  *)
(* source (6 MiB, 64 KiB, 4096, 120, 1000, 8 MiB, 8192) are scaled down to *)
(* a few bytes so that files of a few bytes exercise every branch; the     *)
(* scaled values keep the order of the originals:                          *)
(*   page = BufReader block < scan chunk < interval * estimate             *)
(*        <= line ceiling < window cap.                                    *)
(***************************************************************************)
EXTENDS Integers, Sequences, FiniteSets, TLC

(***************************************************************************)
(* Program constants (scaled).                                             *)
(***************************************************************************)
\* b'\n'
NL == 10
\* '\r', stripped by str::lines()
CR == 13
\* MAX_LINE_BYTES = 6 * 1024 * 1024
MAX_LINE_BYTES == 4
\* index_interval = 1000
INDEX_INTERVAL == 2
\* buf = vec![0u8; 64 * 1024]
CHUNK_SIZE == 3
\* page_size = 4096
PAGE_SIZE == 2
\* estimated_line_len = 120
ESTIMATED_LINE_LEN == 2
\* cap = 8 * 1024 * 1024
WINDOW_CAP == 5
\* the block size of the BufReader made by BufReader::new (8192 in std)
BUF_CAPACITY == 2
\* max_matches_return = 1000
MAX_MATCHES_RETURN == 2
\* samples.len() < 5
MAX_SAMPLES == 2
\* U+FFFD, what String::from_utf8_lossy puts for an invalid sequence
REPLACEMENT == 65533

(***************************************************************************)
(* Bounds of the model.                                                    *)
(***************************************************************************)
\* longest file, in bytes
MaxFileLen == 6
\* largest start line requested
MaxStart == 4
\* largest line count requested
MaxCount == 2
\* longest file that is searched, in bytes
MaxSearchFileLen == 5
\* longest search needle, in bytes
MaxNeedleLen == 2
\* the search's occurrence counter saturates here (usize in the source)
MaxSearchCount == 9
\* longest file read with failing system calls, in bytes
MaxFaultFileLen == 5
\* longest file with an overlong line, in bytes
MaxOverlongFileLen == 7
\* longest file with multi-byte text that is searched, in bytes
MaxUtf8FileLen == 4
\* longest file indexed with reads of any sizes, in bytes
MaxChunkedFileLen == 7
\* longest file with carriage returns that is read, in bytes
MaxCrlfFileLen == 5

Min(a, b) == IF a <= b THEN a ELSE b

Max(a, b) == IF a >= b THEN a ELSE b

\* bytes [from, to) of a byte sequence, offsets counted from 0 as in the source
Slice(s, from, to) == SubSeq(s, from + 1, to)

\* s[from..]
SliceFrom(s, from) == SubSeq(s, from + 1, Len(s))

\* the bytes of the files that are read: 'a' and '\n'
FileBytes == {97, NL}

\* the bytes of the files that are searched, and of the needles: 'a', 'A', '\n'
SearchBytes == {97, 65, NL}

\* every byte sequence over bs of at most n bytes
SeqsUpTo(bs, n) == UNION {[1..k -> bs] : k \in 0..n}

Files == SeqsUpTo(FileBytes, MaxFileLen)

SearchFiles == SeqsUpTo(SearchBytes, MaxSearchFileLen)


(***************************************************************************)
(* Line Indexer: the scan loop of LargeFilePreview::open.                  *)
(* The scan state is (total, index, rem, pos) of the source; rem is kept   *)
(* as its length, the only thing the scan reads of it, and start is the    *)
(* chunk-local variable of the same name.                                  *)
(***************************************************************************)
ScanInit == [total |-> 0, index |-> <<>>, rem |-> 0, pos |-> 0, start |-> 0]

\* ScanNewline pushing the position of the line that ends, not of the next
ScanNewlineStalePos(st, i) ==
    LET part_len == i + 1 - st.start
        line_len == st.rem + part_len
        pos      == st.pos + (IF line_len > MAX_LINE_BYTES
                                 THEN MAX_LINE_BYTES ELSE line_len)
        total    == st.total + 1
    IN  [total |-> total,
         index |-> IF total % INDEX_INTERVAL = 0
                      THEN Append(st.index, st.pos) ELSE st.index,
         rem   |-> 0,
         pos   |-> pos,
         start |-> i + 1]

\* the body of `if buf[i] == b'\n'`, i counted from 0
ScanNewline(st, i) ==
    LET part_len == i + 1 - st.start
        line_len == st.rem + part_len
        pos      == st.pos + (IF line_len > MAX_LINE_BYTES
                                 THEN MAX_LINE_BYTES ELSE line_len)
        total    == st.total + 1
    IN  [total |-> total,
         index |-> IF total % INDEX_INTERVAL = 0
                      THEN Append(st.index, pos) ELSE st.index,
         rem   |-> 0,
         pos   |-> pos,
         start |-> i + 1]

\* for i in 0..n, from byte i on
RECURSIVE ScanChunkFrom(_, _, _)
ScanChunkFrom(st, buf, i) ==
    IF i >= Len(buf) THEN st
    ELSE ScanChunkFrom(IF buf[i + 1] = NL THEN ScanNewline(st, i) ELSE st,
                       buf, i + 1)

\* ScanRemainder advancing the position by the bytes it puts into rem, which
\* the newline of the line counts again
ScanRemainderCountsAll(st, n) ==
    IF st.start < n
       THEN LET rem == st.rem + (n - st.start)
            IN  [st EXCEPT !.pos = @ + (n - st.start),
                           !.rem = Min(rem, MAX_LINE_BYTES)]
       ELSE st

\* `if start < n`: the unfinished line goes to rem, capped at the ceiling
ScanRemainder(st, n) ==
    IF st.start < n
       THEN LET rem == st.rem + (n - st.start)
            IN  IF rem > MAX_LINE_BYTES
                   THEN [st EXCEPT !.pos = @ + (rem - MAX_LINE_BYTES),
                                   !.rem = MAX_LINE_BYTES]
                   ELSE [st EXCEPT !.rem = rem]
       ELSE st

\* one iteration of the loop with n > 0 bytes read into buf
ScanChunk(st, buf) ==
    ScanRemainder(ScanChunkFrom([st EXCEPT !.start = 0], buf, 0), Len(buf))

\* ScanEof with the last line forgotten when it has no newline
ScanEofDropsLastLine(st) == st

\* `if n == 0`: a last line without newline counts as one line
ScanEof(st) ==
    IF st.rem # 0
       THEN LET total == st.total + 1
                pos   == st.pos + st.rem
            IN  [st EXCEPT !.total = total,
                           !.pos   = pos,
                           !.index = IF total % INDEX_INTERVAL = 0
                                        THEN Append(@, pos) ELSE @]
       ELSE st

\* reader.read(&mut buf) on a regular file: the next chunk bytes, 0 at the end
RECURSIVE ScanFile(_, _, _, _)
ScanFile(st, content, off, chunk) ==
    LET n == Min(chunk, Len(content) - off)
    IN  IF n = 0 THEN ScanEof(st)
        ELSE ScanFile(ScanChunk(st, Slice(content, off, off + n)),
                      content, off + n, chunk)

(***************************************************************************)
(* reader.read(&mut buf) may return fewer bytes than the buffer has room   *)
(* for.  A chunking of a file of n bytes is the set of the offsets, between *)
(* 1 and n - 1, at which one read ends and the next begins; no read        *)
(* returns more than CHUNK_SIZE bytes.                                     *)
(***************************************************************************)
\* where the read that starts at off ends
NextCut(cuts, off, n) ==
    LET later == {c \in cuts \cup {n} : c > off}
    IN  CHOOSE c \in later : \A d \in later : c <= d

Chunkings(n) ==
    {cuts \in SUBSET (1..(n - 1)) :
        \A off \in cuts \cup {0} :
            off < n => NextCut(cuts, off, n) - off <= CHUNK_SIZE}

\* the scan loop over the reads of a chunking
RECURSIVE ScanFileBy(_, _, _, _)
ScanFileBy(st, content, off, cuts) ==
    IF off >= Len(content) THEN ScanEof(st)
    ELSE LET to == NextCut(cuts, off, Len(content))
         IN  ScanFileBy(ScanChunk(st, Slice(content, off, to)), content, to, cuts)

\* the cache slot when it holds no window; a window is the mapping of len
\* bytes at offset off of the file at path file
NoWindow == [off |-> 0, len |-> 0, file |-> 0]

(***************************************************************************)
(* The session LargeFilePreview::open returns.  cursor is the position of  *)
(* the open file description behind file_handle: File::try_clone           *)
(* duplicates the descriptor, and the duplicates share that one position.  *)
(* The scan reads through such a duplicate to the end of the file.         *)
(* poisoned is the state of the std Mutex around the cache slot: a panic   *)
(* of a thread that holds it poisons it, and lock() fails from then on.    *)
(***************************************************************************)
LargeFilePreviewOpen(path, content) ==
    LET st == ScanFile(ScanInit, content, 0, CHUNK_SIZE)
    IN  [path        |-> path,
         total_lines |-> st.total,
         index       |-> st.index,
         cached_window |-> NoWindow,
         poisoned    |-> FALSE,
         cursor      |-> Len(content)]

(***************************************************************************)
(* Text: String::from_utf8_lossy, str::as_bytes and str::lines.  A string  *)
(* is the sequence of its Unicode scalar values.                           *)
(***************************************************************************)
IsCont(b) == b >= 128 /\ b <= 191

\* the second byte a lead byte admits (E0, ED, F0 and F4 narrow the range)
SecondOk(lead, b) ==
    CASE lead = 224 -> b >= 160 /\ b <= 191
      [] lead = 237 -> b >= 128 /\ b <= 159
      [] lead = 240 -> b >= 144 /\ b <= 191
      [] lead = 244 -> b >= 128 /\ b <= 143
      [] OTHER      -> IsCont(b)

\* how many bytes the sequence a lead byte opens has (0: not a lead byte)
SeqLen(b) ==
    IF b < 128 THEN 1
    ELSE IF b >= 194 /\ b <= 223 THEN 2
    ELSE IF b >= 224 /\ b <= 239 THEN 3
    ELSE IF b >= 240 /\ b <= 244 THEN 4
    ELSE 0

\* the longest prefix of bs that begins a well-formed sequence, in bytes
ValidPrefix(bs) ==
    LET n == Len(bs)
        w == SeqLen(bs[1])
    IN  IF w <= 1 THEN w
        ELSE IF n < 2 \/ ~SecondOk(bs[1], bs[2]) THEN 1
        ELSE IF w = 2 THEN 2
        ELSE IF n < 3 \/ ~IsCont(bs[3]) THEN 2
        ELSE IF w = 3 THEN 3
        ELSE IF n < 4 \/ ~IsCont(bs[4]) THEN 3
        ELSE 4

\* the scalar value of a complete sequence of w bytes at the head of bs
Scalar(bs, w) ==
    CASE w = 1 -> bs[1]
      [] w = 2 -> (bs[1] - 192) * 64 + (bs[2] - 128)
      [] w = 3 -> (bs[1] - 224) * 4096 + (bs[2] - 128) * 64 + (bs[3] - 128)
      [] w = 4 -> (bs[1] - 240) * 262144 + (bs[2] - 128) * 4096
                     + (bs[3] - 128) * 64 + (bs[4] - 128)

\* String::from_utf8_lossy: each maximal ill-formed part becomes one U+FFFD
RECURSIVE Utf8Lossy(_)
Utf8Lossy(bs) ==
    IF bs = <<>> THEN <<>>
    ELSE LET w == SeqLen(bs[1])
             v == ValidPrefix(bs)
         IN  IF w > 0 /\ v = w
                THEN <<Scalar(bs, w)>> \o Utf8Lossy(SliceFrom(bs, w))
                ELSE <<REPLACEMENT>> \o Utf8Lossy(SliceFrom(bs, Max(v, 1)))

\* the UTF-8 bytes of one scalar value
EncodeChar(c) ==
    IF c < 128 THEN <<c>>
    ELSE IF c < 2048 THEN <<192 + (c \div 64), 128 + (c % 64)>>
    ELSE IF c < 65536
         THEN <<224 + (c \div 4096), 128 + ((c \div 64) % 64), 128 + (c % 64)>>
    ELSE <<240 + (c \div 262144), 128 + ((c \div 4096) % 64),
           128 + ((c \div 64) % 64), 128 + (c % 64)>>

\* str::as_bytes
RECURSIVE AsBytes(_)
AsBytes(text) ==
    IF text = <<>> THEN <<>> ELSE EncodeChar(text[1]) \o AsBytes(Tail(text))

\* the position (from 1) of the first x in s, 0 when there is none
IndexOf(s, x) ==
    IF \E i \in 1..Len(s) : s[i] = x
       THEN CHOOSE i \in 1..Len(s) : s[i] = x /\ \A j \in 1..(i - 1) : s[j] # x
       ELSE 0

\* str::lines takes the '\n' off a line and then one '\r' before it
StripCR(l) ==
    IF l # <<>> /\ l[Len(l)] = CR THEN SubSeq(l, 1, Len(l) - 1) ELSE l

\* str::lines: a last line without '\n' is a line, kept as it is
RECURSIVE StrLines(_)
StrLines(text) ==
    IF text = <<>> THEN <<>>
    ELSE LET k == IndexOf(text, NL)
         IN  IF k = 0 THEN <<text>>
             ELSE <<StripCR(SubSeq(text, 1, k - 1))>>
                      \o StrLines(SubSeq(text, k + 1, Len(text)))

(***************************************************************************)
(* Line Reader: LargeFilePreview::read_lines.                              *)
(***************************************************************************)
\* Anchor taking the entry of the interval before the one start is in
AnchorEntryBefore(start, index) ==
    LET pos_idx == start \div INDEX_INTERVAL
    IN  IF pos_idx <= 1 THEN [base_offset |-> 0, base_line |-> 0]
        ELSE LET idx == pos_idx - 2
             IN  IF idx < Len(index)
                    THEN [base_offset |-> index[idx + 1],
                          base_line   |-> (pos_idx - 1) * INDEX_INTERVAL]
                    ELSE [base_offset |-> 0, base_line |-> 0]

\* the (base_offset, base_line) anchor taken from the sparse index
Anchor(start, index) ==
    LET pos_idx == start \div INDEX_INTERVAL
    IN  IF pos_idx = 0 THEN [base_offset |-> 0, base_line |-> 0]
        ELSE LET idx == pos_idx - 1
             IN  IF idx < Len(index)
                    THEN [base_offset |-> index[idx + 1],
                          base_line   |-> pos_idx * INDEX_INTERVAL]
                    ELSE [base_offset |-> 0, base_line |-> 0]

\* WindowPlan with a window that starts at base_offset, not at a page
WindowPlanUnaligned(start, count, index) ==
    LET a             == Anchor(start, index)
        desired_lines == count + INDEX_INTERVAL
        desired_bytes == desired_lines * ESTIMATED_LINE_LEN
    IN  [base_offset |-> a.base_offset,
         base_line   |-> a.base_line,
         aligned     |-> a.base_offset,
         map_len     |-> Min(desired_bytes, WINDOW_CAP)]

\* the window the call asks for: page-aligned start, estimated length, capped
WindowPlan(start, count, index) ==
    LET a             == Anchor(start, index)
        desired_lines == count + INDEX_INTERVAL
        desired_bytes == desired_lines * ESTIMATED_LINE_LEN
        aligned       == (a.base_offset \div PAGE_SIZE) * PAGE_SIZE
        delta         == a.base_offset - aligned
    IN  [base_offset |-> a.base_offset,
         base_line   |-> a.base_line,
         aligned     |-> aligned,
         map_len     |-> Min(delta + desired_bytes, WINDOW_CAP)]

\* the cached window covers [base_offset, base_offset + map_len)
CacheCovers(w, plan) ==
    /\ w.len > 0
    /\ plan.base_offset >= w.off
    /\ plan.base_offset + plan.map_len <= w.off + w.len

\* EmitLines with the newline put between the lines and not after the last
RECURSIVE EmitLinesSeparated(_, _, _)
EmitLinesSeparated(ls, i, n) ==
    IF n = 0 \/ i > Len(ls) THEN <<>>
    ELSE LET l == ls[i]
             b == AsBytes(l)
         IN  IF Len(b) > MAX_LINE_BYTES
                THEN Utf8Lossy(SubSeq(b, 1, MAX_LINE_BYTES))
             ELSE IF n = 1 \/ i = Len(ls) THEN l
             ELSE l \o <<NL>> \o EmitLinesSeparated(ls, i + 1, n - 1)

\* the emit loop over the lines of a window, from line i (from 1), n to go
RECURSIVE EmitLines(_, _, _)
EmitLines(ls, i, n) ==
    IF n = 0 \/ i > Len(ls) THEN <<>>
    ELSE LET l == ls[i]
             b == AsBytes(l)
         IN  IF Len(b) > MAX_LINE_BYTES
                THEN Utf8Lossy(SubSeq(b, 1, MAX_LINE_BYTES)) \o <<NL>>
                ELSE l \o <<NL>> \o EmitLines(ls, i + 1, n - 1)

\* WindowRead taking the byte at base_offset, which the window has to hold
WindowReadIndexing(fsys, w, base_offset, skip, count) ==
    LET mmap   == Slice(fsys[w.file], w.off, w.off + w.len)
        delta2 == IF base_offset >= w.off THEN base_offset - w.off ELSE 0
    IN  IF delta2 >= Len(mmap)
           THEN [panic |-> TRUE, ok |-> FALSE, out |-> <<>>]
           ELSE LET ls == StrLines(Utf8Lossy(SliceFrom(mmap, delta2)))
                IN  IF Len(ls) < skip
                       THEN [panic |-> FALSE, ok |-> FALSE, out |-> <<>>]
                       ELSE [panic |-> FALSE, ok |-> TRUE,
                             out |-> EmitLines(ls, skip + 1, count)]

(***************************************************************************)
(* Reading through a mapped window w of the file: slice the mapping at     *)
(* base_offset, decode, split into lines, skip, emit.  Slicing past the    *)
(* end of the mapping panics; skipping past its last line gives up (ok is  *)
(* false) and the caller goes on to the next way of reading.               *)
(***************************************************************************)
WindowRead(fsys, w, base_offset, skip, count) ==
    LET mmap   == Slice(fsys[w.file], w.off, w.off + w.len)
        delta2 == IF base_offset >= w.off THEN base_offset - w.off ELSE 0
    IN  IF delta2 > Len(mmap)
           THEN [panic |-> TRUE, ok |-> FALSE, out |-> <<>>]
           ELSE LET ls == StrLines(Utf8Lossy(SliceFrom(mmap, delta2)))
                IN  IF Len(ls) < skip
                       THEN [panic |-> FALSE, ok |-> FALSE, out |-> <<>>]
                       ELSE [panic |-> FALSE, ok |-> TRUE,
                             out |-> EmitLines(ls, skip + 1, count)]

\* the length to map once clipped to the file length (0: nothing to map)
ClipLen(plan, file_len) ==
    IF plan.aligned >= file_len THEN 0
    ELSE Min(plan.map_len, file_len - plan.aligned)

(***************************************************************************)
(* The sequential fallback.  A BufReader of BUF_CAPACITY bytes reads the   *)
(* file in blocks from the position of the file description: c is the      *)
(* offset of the next byte it hands out, f the offset the description has  *)
(* reached (the block read last ends there).                               *)
(***************************************************************************)
\* read_until(b'\n', &mut tmp)
RECURSIVE ReadUntil(_, _, _, _)
ReadUntil(content, c, f, tmp) ==
    IF c = f
       THEN LET f2 == IF f >= Len(content) THEN f
                      ELSE Min(f + BUF_CAPACITY, Len(content))
            IN  IF f2 = f THEN [tmp |-> tmp, c |-> c, f |-> f]
                ELSE ReadUntil(content, c, f2, tmp)
       ELSE LET avail == Slice(content, c, f)
                k     == IndexOf(avail, NL)
            IN  IF k > 0
                   THEN [tmp |-> tmp \o SubSeq(avail, 1, k), c |-> c + k, f |-> f]
                   ELSE ReadUntil(content, f, f, tmp \o avail)

\* while cur < start: read a line and drop it
RECURSIVE FallbackSkip(_, _, _, _, _)
FallbackSkip(content, c, f, cur, start) ==
    IF cur >= start THEN [c |-> c, f |-> f]
    ELSE LET r == ReadUntil(content, c, f, <<>>)
         IN  IF Len(r.tmp) = 0 THEN [c |-> r.c, f |-> r.f]
             ELSE FallbackSkip(content, r.c, r.f, cur + 1, start)

\* for _ in 0..count: read a line, truncate it at the ceiling, emit it
RECURSIVE FallbackEmit(_, _, _, _, _)
FallbackEmit(content, c, f, n, out) ==
    IF n = 0 THEN [out |-> out, f |-> f]
    ELSE LET r == ReadUntil(content, c, f, <<>>)
         IN  IF Len(r.tmp) = 0 THEN [out |-> out, f |-> r.f]
             ELSE IF Len(r.tmp) > MAX_LINE_BYTES
                  THEN [out |-> out \o Utf8Lossy(SubSeq(r.tmp, 1, MAX_LINE_BYTES))
                                    \o <<NL>>,
                        f   |-> r.f]
             ELSE LET o2 == out \o Utf8Lossy(r.tmp)
                  IN  FallbackEmit(content, r.c, r.f, n - 1,
                                   IF o2[Len(o2)] = NL THEN o2 ELSE Append(o2, NL))

\* where the fallback's reads start: it seeks only when base_offset > 0
FallbackFrom(cursor, base_offset) ==
    IF base_offset > 0 THEN base_offset ELSE cursor

\* the two loops of the fallback, the description standing at from
FallbackRead(content, from, base_line, start, count) ==
    LET sk == FallbackSkip(content, from, from, base_line, start)
        em == FallbackEmit(content, sk.c, sk.f, count, <<>>)
    IN  [out |-> em.out, cursor |-> em.f, from |-> from]

\* the fallback as a whole: the text, and where it leaves the description
Fallback(content, cursor, plan, start, count) ==
    FallbackRead(content, FallbackFrom(cursor, plan.base_offset),
                 plan.base_line, start, count)

(***************************************************************************)
(* read_lines as one call on a session s, the files on disk being fsys.     *)
(* env is what the operating system answers this call: "ok", "meta_err"    *)
(* (file.metadata() fails, the length is taken as 0) or "map_err" (the     *)
(* mmap call fails).  The result names the text, the outcome, the way the  *)
(* call was served, and the session's cache slot and file position after   *)
(* the call.  The calls that can return an I/O error are try_clone         *)
(* ("dup_err"), the seek of the fallback ("seek_err") and its first read   *)
(* ("read_err"); a `?` returns the error at once.                          *)
(***************************************************************************)
ReadResult(outcome, text, served, w, cursor, from, plan) ==
    [outcome |-> outcome, text |-> text, served |-> served,
     cached_window |-> w, cursor |-> cursor, from |-> from,
     base_offset |-> plan.base_offset]

\* the fallback branch of a call that leaves window w in the slot; it reads
\* when it has a line to skip or a line to emit
ReadFallback(s, content, plan, start, count, w, env) ==
    LET fb   == Fallback(content, s.cursor, plan, start, count)
        from == FallbackFrom(s.cursor, plan.base_offset)
    IN  IF env = "seek_err" /\ plan.base_offset > 0
           THEN ReadResult("io_err", <<>>, "fallback", w, s.cursor, s.cursor, plan)
        ELSE IF env = "read_err" /\ (plan.base_line < start \/ count > 0)
           THEN ReadResult("io_err", <<>>, "fallback", w, from, from, plan)
        ELSE ReadResult("ok", fb.out, "fallback", w, fb.cursor, fb.from, plan)

\* the branch that maps a fresh window of len bytes, stores it and reads it
ReadFresh(s, fsys, plan, start, count, len, env) ==
    LET content == fsys[s.path]
        w  == [off |-> plan.aligned, len |-> len, file |-> s.path]
        fr == WindowRead(fsys, w, plan.base_offset,
                         Max(start - plan.base_line, 0), count)
    IN  IF fr.panic
           THEN ReadResult("panic", <<>>, "fresh", w, s.cursor, 0, plan)
        ELSE IF fr.ok
           THEN ReadResult("ok", fr.out, "fresh", w, s.cursor, 0, plan)
        ELSE ReadFallback(s, content, plan, start, count, w, env)

\* read_lines returning the error of a mapping call that fails
ReadLinesRunMapFatal(s, fsys, start, count, env) ==
    LET content == fsys[s.path]
        plan   == WindowPlan(start, count, s.index)
        skip   == Max(start - plan.base_line, 0)
        cached == IF ~s.poisoned /\ CacheCovers(s.cached_window, plan)
                     THEN WindowRead(fsys, s.cached_window,
                                     plan.base_offset, skip, count)
                     ELSE [panic |-> FALSE, ok |-> FALSE, out |-> <<>>]
        file_len == IF env = "meta_err" THEN 0 ELSE Len(content)
        len      == ClipLen(plan, file_len)
    IN  IF env = "dup_err"
           THEN ReadResult("io_err", <<>>, "none", s.cached_window,
                           s.cursor, 0, plan)
        ELSE IF cached.ok
           THEN ReadResult("ok", cached.out, "cached", s.cached_window,
                           s.cursor, 0, plan)
        ELSE IF len > 0 /\ env = "map_err"
           THEN ReadResult("io_err", <<>>, "none", s.cached_window,
                           s.cursor, 0, plan)
        ELSE IF len > 0 /\ ~s.poisoned
           THEN ReadFresh(s, fsys, plan, start, count, len, env)
        ELSE ReadFallback(s, content, plan, start, count, s.cached_window, env)

ReadLinesRun(s, fsys, start, count, env) ==
    LET content == fsys[s.path]
        plan   == WindowPlan(start, count, s.index)
        skip   == Max(start - plan.base_line, 0)
        cached == IF ~s.poisoned /\ CacheCovers(s.cached_window, plan)
                     THEN WindowRead(fsys, s.cached_window,
                                     plan.base_offset, skip, count)
                     ELSE [panic |-> FALSE, ok |-> FALSE, out |-> <<>>]
        file_len == IF env = "meta_err" THEN 0 ELSE Len(content)
        len      == ClipLen(plan, file_len)
    IN  IF env = "dup_err"
           THEN ReadResult("io_err", <<>>, "none", s.cached_window,
                           s.cursor, 0, plan)
        ELSE IF cached.ok
           THEN ReadResult("ok", cached.out, "cached", s.cached_window,
                           s.cursor, 0, plan)
        ELSE IF len > 0 /\ env # "map_err" /\ ~s.poisoned
           THEN ReadFresh(s, fsys, plan, start, count, len, env)
        ELSE ReadFallback(s, content, plan, start, count, s.cached_window, env)

(***************************************************************************)
(* Search Engine: LargeFilePreview::mmap_search.                           *)
(***************************************************************************)
\* u8::to_ascii_lowercase
ToAsciiLowercase(b) == IF b >= 65 /\ b <= 90 THEN b + 32 ELSE b

Lowered(bs) == [i \in 1..Len(bs) |-> ToAsciiLowercase(bs[i])]

\* std::str::from_utf8(bs).is_ok()
RECURSIVE IsUtf8(_)
IsUtf8(bs) ==
    \/ bs = <<>>
    \/ LET w == SeqLen(bs[1])
       IN  w > 0 /\ ValidPrefix(bs) = w /\ IsUtf8(SliceFrom(bs, w))

\* from_utf8(bs).map(|s| s.chars().count()).unwrap_or(dflt)
CharsOr(bs, dflt) == IF IsUtf8(bs) THEN Len(Utf8Lossy(bs)) ELSE dflt

\* memmem::find(&hay[start..], needle), as an offset into hay; -1 for None
Find(hay, start, needle) ==
    LET n    == Len(needle)
        hits == {i \in start..(Len(hay) - n) : Slice(hay, i, i + n) = needle}
    IN  IF hits = {} THEN -1
        ELSE CHOOSE i \in hits : \A j \in hits : i <= j

\* hay[..abs].iter().filter(|&&b| b == b'\n').count()
NewlinesBefore(hay, abs) == Cardinality({i \in 1..abs : hay[i] = NL})

\* hay[..abs].iter().rposition(|&b| b == b'\n').map(|p| p + 1).unwrap_or(0)
LineStart(hay, abs) ==
    LET nls == {i \in 1..abs : hay[i] = NL}
    IN  IF nls = {} THEN 0 ELSE CHOOSE i \in nls : \A j \in nls : j <= i

\* hay[abs..].iter().position(|&b| b == b'\n').map(|p| abs + p).unwrap_or(hay.len())
LineEnd(hay, abs) ==
    LET nls == {i \in (abs + 1)..Len(hay) : hay[i] = NL}
    IN  IF nls = {} THEN Len(hay)
        ELSE (CHOOSE i \in nls : \A j \in nls : i <= j) - 1

\* the (line, column, length) record of the occurrence at abs
MatchRecord(hay, hay_orig, needle_used, abs) ==
    [line   |-> NewlinesBefore(hay, abs),
     column |-> CharsOr(Slice(hay_orig, LineStart(hay, abs), abs), 0),
     length |-> CharsOr(needle_used, Len(needle_used))]

\* the loop variables before the first iteration; first_match is <<>> for None
SearchInit ==
    [start |-> 0, count |-> 0, samples |-> <<>>, matches |-> <<>>,
     first_match |-> <<>>]

\* SearchIter resuming one byte after the start of the occurrence, not after
\* its end
SearchIterOverlapping(st, hay, hay_orig, needle_used, abs) ==
    [start   |-> abs + 1,
     count   |-> Min(st.count + 1, MaxSearchCount),
     samples |-> st.samples,
     matches |-> IF Len(st.matches) < MAX_MATCHES_RETURN
                    THEN Append(st.matches,
                                MatchRecord(hay, hay_orig, needle_used, abs))
                    ELSE st.matches,
     first_match |-> IF st.first_match = <<>>
                        THEN <<MatchRecord(hay, hay_orig, needle_used, abs)>>
                        ELSE st.first_match]

\* SearchIter setting first_match at every occurrence
SearchIterLastMatch(st, hay, hay_orig, needle_used, abs) ==
    LET rec  == MatchRecord(hay, hay_orig, needle_used, abs)
        line == Slice(hay_orig, LineStart(hay, abs), LineEnd(hay, abs))
    IN  [start   |-> abs + Len(needle_used),
         count   |-> Min(st.count + 1, MaxSearchCount),
         samples |-> IF IsUtf8(line) /\ Len(st.samples) < MAX_SAMPLES
                        THEN Append(st.samples, Utf8Lossy(line))
                        ELSE st.samples,
         matches |-> IF Len(st.matches) < MAX_MATCHES_RETURN
                        THEN Append(st.matches, rec) ELSE st.matches,
         first_match |-> <<rec>>]

\* one iteration of the while loop, for the occurrence found at abs
SearchIter(st, hay, hay_orig, needle_used, abs) ==
    LET rec  == MatchRecord(hay, hay_orig, needle_used, abs)
        line == Slice(hay_orig, LineStart(hay, abs), LineEnd(hay, abs))
    IN  [start   |-> abs + Len(needle_used),
         count   |-> Min(st.count + 1, MaxSearchCount),
         samples |-> IF IsUtf8(line) /\ Len(st.samples) < MAX_SAMPLES
                        THEN Append(st.samples, Utf8Lossy(line))
                        ELSE st.samples,
         matches |-> IF Len(st.matches) < MAX_MATCHES_RETURN
                        THEN Append(st.matches, rec) ELSE st.matches,
         first_match |-> IF st.first_match = <<>> THEN <<rec>>
                         ELSE st.first_match]

\* a haystack that is never lowered
HaystackAsIs(content, ignore_case) == content

\* the haystack and the needle the loop works on
Haystack(content, ignore_case) ==
    IF ignore_case THEN Lowered(content) ELSE content

NeedleUsed(needle, ignore_case) ==
    IF ignore_case THEN Lowered(needle) ELSE needle

\* the while loop run to its end (it has one only when the needle is not empty)
RECURSIVE SearchLoop(_, _, _, _)
SearchLoop(st, hay, hay_orig, needle_used) ==
    LET abs == Find(hay, st.start, needle_used)
    IN  IF abs < 0 THEN st
        ELSE SearchLoop(SearchIter(st, hay, hay_orig, needle_used, abs),
                        hay, hay_orig, needle_used)

\* what mmap_search returns, from the loop variables at the loop's end
SearchResult(st, content, ignore_case) ==
    [count       |-> st.count,
     samples     |-> st.samples,
     matches     |-> st.matches,
     first_match |-> st.first_match,
     extra_alloc |-> IF ignore_case /\ Len(content) > 0 THEN Len(content) ELSE 0]

\* mmap_search as one call; an empty file returns before anything is mapped
MmapSearchRun(content, needle, ignore_case) ==
    IF Len(content) = 0 THEN SearchResult(SearchInit, content, ignore_case)
    ELSE SearchResult(SearchLoop(SearchInit, Haystack(content, ignore_case),
                                 content, NeedleUsed(needle, ignore_case)),
                      content, ignore_case)

(***************************************************************************)
(* State.                                                                  *)
(*   fs       the files on disk, by path; they do not change               *)
(*   reg      LARGE_FILE_PREVIEW, the registry slot: the session held, or  *)
(*            NoSession; it is the state of the calls made one at a time   *)
(*   lastOp   the last public operation made and what it returned          *)
(*   emptied  whether the slot is empty because close_file emptied it      *)
(* and, for the calls that run at the same time as other calls:            *)
(*   slot     LARGE_FILE_PREVIEW again, as the id of the session held, or 0 *)
(*   lock     the caller that holds the registry's async mutex, or 0        *)
(*   heap     the sessions alive, by id; the clones of a session share its *)
(*            cache slot and its file description, so a clone is its id    *)
(*   pc       where each caller stands in its call                         *)
(*   call     each caller's call: its arguments, its locals, its result    *)
(***************************************************************************)
VARIABLES fs, reg, lastOp, emptied, slot, lock, heap, pc, call

seqVars == <<reg, lastOp, emptied>>

concVars == <<slot, lock, heap, pc, call>>

vars == <<fs, reg, lastOp, emptied, slot, lock, heap, pc, call>>

\* the paths the file picker can return; 0 stands for a cancelled dialog
Paths == {1, 2}

\* the file at path 2: "A\na", two lines, the last one without newline
OtherFile == <<65, NL, 97>>

\* Option::None in the registry slot
NoSession ==
    [path |-> 0, total_lines |-> 0, index |-> <<>>,
     cached_window |-> NoWindow, poisoned |-> FALSE, cursor |-> 0]

IsOpen(s) == s.path # 0

\* the record of an operation, before its fields are filled in
NoOp ==
    [kind |-> "none", outcome |-> "ok", was_open |-> FALSE,
     had_window |-> FALSE, prev_path |-> 0, path |-> 0,
     start |-> 0, count |-> 0, env |-> "ok", text |-> <<>>, value |-> 0,
     served |-> "none", from |-> 0, base_offset |-> 0,
     needle |-> <<>>, ignore_case |-> FALSE, found |-> SearchInit]

Op(kind) ==
    [NoOp EXCEPT !.kind = kind, !.was_open = IsOpen(reg),
                 !.had_window = (reg.cached_window # NoWindow),
                 !.prev_path = reg.path]

\* the requests of the model
Starts == 0..MaxStart

Counts == 0..MaxCount

Envs == {"ok", "map_err"}

Needles == SeqsUpTo(SearchBytes, MaxNeedleLen) \ {<<>>}

\* the callers, and the ids of the sessions that can be alive at a time: the
\* one in the slot and one per caller
Procs == {1, 2}

SessionIds == {1, 2, 3}

\* a caller's call before it is made
NoCall ==
    [kind |-> "none", path |-> 0, io_ok |-> TRUE, start |-> 0, count |-> 0,
     env |-> "ok", needle |-> <<>>, ignore_case |-> FALSE,
     sid |-> 0, window |-> NoWindow, st |-> SearchInit,
     outcome |-> "none", text |-> <<>>, value |-> 0, served |-> "none",
     from |-> 0]

\* no caller has called anything yet
ConcIdle ==
    /\ slot = 0
    /\ lock = 0
    /\ heap = [i \in SessionIds |-> NoSession]
    /\ pc = [p \in Procs |-> "idle"]
    /\ call = [p \in Procs |-> NoCall]

SeqIdle ==
    /\ reg = NoSession
    /\ lastOp = NoOp
    /\ emptied = FALSE

InitSeq ==
    /\ fs \in {[p \in Paths |-> IF p = 1 THEN f ELSE OtherFile] : f \in Files}
    /\ SeqIdle
    /\ ConcIdle

(***************************************************************************)
(* Session Registry: the public functions, each called to its end before   *)
(* the next one is called.                                                 *)
(***************************************************************************)
\* open_file handing the old session's cache slot over to the new session
OpenFileKeepsCache(p, io_ok) ==
    /\ IF p = 0
          THEN /\ lastOp' = [Op("open") EXCEPT !.outcome = "no_file"]
               /\ UNCHANGED <<reg, emptied>>
       ELSE IF ~io_ok
          THEN /\ lastOp' = [Op("open") EXCEPT !.outcome = "io_err", !.path = p]
               /\ UNCHANGED <<reg, emptied>>
       ELSE /\ reg' = [LargeFilePreviewOpen(p, fs[p]) EXCEPT
                          !.cached_window = reg.cached_window]
            /\ lastOp' = [Op("open") EXCEPT !.path = p, !.value = Len(fs[p])]
            /\ emptied' = FALSE
    /\ UNCHANGED fs
    /\ UNCHANGED concVars

\* open_file emptying the slot when the dialog is cancelled or the open fails
OpenFileFailureEmpties(p, io_ok) ==
    /\ IF p = 0
          THEN /\ lastOp' = [Op("open") EXCEPT !.outcome = "no_file"]
               /\ reg' = NoSession
               /\ UNCHANGED emptied
       ELSE IF ~io_ok
          THEN /\ lastOp' = [Op("open") EXCEPT !.outcome = "io_err", !.path = p]
               /\ reg' = NoSession
               /\ UNCHANGED emptied
       ELSE /\ reg' = LargeFilePreviewOpen(p, fs[p])
            /\ lastOp' = [Op("open") EXCEPT !.path = p, !.value = Len(fs[p])]
            /\ emptied' = FALSE
    /\ UNCHANGED fs
    /\ UNCHANGED concVars

\* open_file: the dialog gives a path or nothing; the open may fail on I/O
OpenFile(p, io_ok) ==
    /\ IF p = 0
          THEN /\ lastOp' = [Op("open") EXCEPT !.outcome = "no_file"]
               /\ UNCHANGED <<reg, emptied>>
       ELSE IF ~io_ok
          THEN /\ lastOp' = [Op("open") EXCEPT !.outcome = "io_err", !.path = p]
               /\ UNCHANGED <<reg, emptied>>
       ELSE /\ reg' = LargeFilePreviewOpen(p, fs[p])
            /\ lastOp' = [Op("open") EXCEPT !.path = p, !.value = Len(fs[p])]
            /\ emptied' = FALSE
    /\ UNCHANGED fs
    /\ UNCHANGED concVars

\* close_file answering Ok on an empty slot
CloseFileAlwaysOk ==
    /\ reg' = NoSession
    /\ emptied' = TRUE
    /\ lastOp' = Op("close")
    /\ UNCHANGED fs
    /\ UNCHANGED concVars

\* close_file
CloseFile ==
    /\ IF IsOpen(reg)
          THEN /\ reg' = NoSession
               /\ emptied' = TRUE
               /\ lastOp' = Op("close")
          ELSE /\ lastOp' = [Op("close") EXCEPT !.outcome = "not_open"]
               /\ UNCHANGED <<reg, emptied>>
    /\ UNCHANGED fs
    /\ UNCHANGED concVars

\* get_total_lines
GetTotalLines ==
    /\ lastOp' = IF IsOpen(reg)
                    THEN [Op("total_lines") EXCEPT !.value = reg.total_lines]
                    ELSE [Op("total_lines") EXCEPT !.outcome = "not_open"]
    /\ UNCHANGED <<fs, reg, emptied>>
    /\ UNCHANGED concVars

\* get_file_size: 0 when nothing is open; the metadata call may fail
GetFileSize(meta_ok) ==
    /\ lastOp' = IF ~IsOpen(reg) THEN Op("file_size")
                 ELSE IF meta_ok
                    THEN [Op("file_size") EXCEPT !.value = Len(fs[reg.path])]
                 ELSE [Op("file_size") EXCEPT !.outcome = "io_err"]
    /\ UNCHANGED <<fs, reg, emptied>>
    /\ UNCHANGED concVars

\* read_lines: the session is cloned out of the slot and read_lines runs on it
ReadLines(start, count, env) ==
    /\ IF IsOpen(reg)
          THEN \E r \in {ReadLinesRun(reg, fs, start, count, env)} :
                   /\ reg' = [reg EXCEPT !.cached_window = r.cached_window,
                                         !.poisoned = @ \/ r.outcome = "panic",
                                         !.cursor = r.cursor]
                   /\ lastOp' = [Op("read") EXCEPT
                                    !.outcome = r.outcome, !.start = start,
                                    !.count = count, !.env = env,
                                    !.text = r.text, !.served = r.served,
                                    !.from = r.from,
                                    !.base_offset = r.base_offset]
          ELSE /\ lastOp' = [Op("read") EXCEPT !.outcome = "not_open",
                                               !.start = start, !.count = count]
               /\ UNCHANGED reg
    /\ UNCHANGED <<fs, emptied>>
    /\ UNCHANGED concVars

\* mmap_search putting the mapping it searches into the session's cache slot
MmapSearchStoresMapping(needle, ignore_case) ==
    /\ lastOp' = IF IsOpen(reg)
                    THEN [Op("search") EXCEPT
                             !.needle = needle, !.ignore_case = ignore_case,
                             !.found = MmapSearchRun(fs[reg.path], needle,
                                                     ignore_case)]
                    ELSE [Op("search") EXCEPT !.outcome = "not_open",
                             !.needle = needle, !.ignore_case = ignore_case]
    /\ reg' = IF IsOpen(reg) /\ Len(fs[reg.path]) > 0
                 THEN [reg EXCEPT !.cached_window =
                          [off |-> 0, len |-> Len(fs[reg.path]),
                           file |-> reg.path]]
                 ELSE reg
    /\ UNCHANGED <<fs, emptied>>
    /\ UNCHANGED concVars

\* mmap_search, for the needles on which its loop ends
MmapSearch(needle, ignore_case) ==
    /\ lastOp' = IF IsOpen(reg)
                    THEN [Op("search") EXCEPT
                             !.needle = needle, !.ignore_case = ignore_case,
                             !.found = MmapSearchRun(fs[reg.path], needle,
                                                     ignore_case)]
                    ELSE [Op("search") EXCEPT !.outcome = "not_open",
                             !.needle = needle, !.ignore_case = ignore_case]
    /\ UNCHANGED <<fs, reg, emptied>>
    /\ UNCHANGED concVars

NextSeq ==
    \/ \E p \in Paths \cup {0}, io_ok \in BOOLEAN : OpenFile(p, io_ok)
    \/ CloseFile
    \/ GetTotalLines
    \/ \E meta_ok \in BOOLEAN : GetFileSize(meta_ok)
    \/ \E start \in Starts, count \in Counts, env \in Envs :
           ReadLines(start, count, env)
    \/ \E needle \in SeqsUpTo(FileBytes, 1) \ {<<>>}, ignore_case \in BOOLEAN :
           MmapSearch(needle, ignore_case)

Spec == InitSeq /\ [][NextSeq]_vars

(***************************************************************************)
(* The same registry with searches instead of reads, on files that hold    *)
(* both letter cases.                                                      *)
(***************************************************************************)
InitSearch ==
    /\ fs \in {[p \in Paths |-> IF p = 1 THEN f ELSE OtherFile] :
                  f \in SearchFiles}
    /\ SeqIdle
    /\ ConcIdle

NextSearch ==
    \/ \E p \in Paths : OpenFile(p, TRUE)
    \/ CloseFile
    \/ \E needle \in Needles, ignore_case \in BOOLEAN :
           MmapSearch(needle, ignore_case)

SpecSearch == InitSearch /\ [][NextSearch]_vars

(***************************************************************************)
(* The searches again, on files that hold multi-byte text: the bytes are   *)
(* 'a', '\n' and the two bytes C3 A9 of U+00E9, in any order, so that a    *)
(* file can be well-formed UTF-8 or not.  The needle is a String in the    *)
(* source, so it is well-formed.                                           *)
(***************************************************************************)
Utf8Bytes == {97, NL, 195, 169}

Utf8Files == SeqsUpTo(Utf8Bytes, MaxUtf8FileLen)

Utf8Needles == {n \in SeqsUpTo(Utf8Bytes, MaxNeedleLen) \ {<<>>} : IsUtf8(n)}

InitUtf8 ==
    /\ fs \in {[p \in Paths |-> IF p = 1 THEN f ELSE OtherFile] :
                  f \in Utf8Files}
    /\ SeqIdle
    /\ ConcIdle

NextUtf8 ==
    \/ \E p \in Paths : OpenFile(p, TRUE)
    \/ \E needle \in Utf8Needles, ignore_case \in BOOLEAN :
           MmapSearch(needle, ignore_case)

SpecUtf8 == InitUtf8 /\ [][NextUtf8]_vars

(***************************************************************************)
(* open_file on files of at most MaxChunkedFileLen bytes, the reads of the *)
(* indexing scan returning any number of bytes from 1 to CHUNK_SIZE.       *)
(***************************************************************************)
OpenFileChunked(p, cuts) ==
    /\ \E st \in {ScanFileBy(ScanInit, fs[p], 0, cuts)} :
           reg' = [LargeFilePreviewOpen(p, fs[p]) EXCEPT
                      !.total_lines = st.total, !.index = st.index]
    /\ lastOp' = [Op("open") EXCEPT !.path = p, !.value = Len(fs[p])]
    /\ emptied' = FALSE
    /\ UNCHANGED fs
    /\ UNCHANGED concVars

InitChunked ==
    /\ fs \in {[p \in Paths |-> IF p = 1 THEN f ELSE OtherFile] :
                  f \in SeqsUpTo(FileBytes, MaxChunkedFileLen)}
    /\ SeqIdle
    /\ ConcIdle

NextChunked ==
    \/ \E p \in Paths : \E cuts \in Chunkings(Len(fs[p])) :
           OpenFileChunked(p, cuts)
    \/ CloseFile

SpecChunked == InitChunked /\ [][NextChunked]_vars

(***************************************************************************)
(* The same registry with reads that the operating system can fail at      *)
(* each of their system calls, on files of at most MaxFaultFileLen bytes.  *)
(***************************************************************************)
FaultEnvs == {"ok", "map_err", "meta_err", "dup_err", "seek_err", "read_err"}

InitFaults ==
    /\ fs \in {[p \in Paths |-> IF p = 1 THEN f ELSE OtherFile] :
                  f \in SeqsUpTo(FileBytes, MaxFaultFileLen)}
    /\ SeqIdle
    /\ ConcIdle

NextFaults ==
    \/ \E p \in Paths : OpenFile(p, TRUE)
    \/ \E start \in Starts, count \in Counts, env \in FaultEnvs :
           ReadLines(start, count, env)

SpecFaults == InitFaults /\ [][NextFaults]_vars

(***************************************************************************)
(* The same registry on the files that hold a run of more than             *)
(* MAX_LINE_BYTES bytes without a newline, of at most MaxOverlongFileLen   *)
(* bytes.                                                                  *)
(***************************************************************************)
HasLongRun(f) ==
    \E i \in 1..(Len(f) - MAX_LINE_BYTES) :
        \A j \in i..(i + MAX_LINE_BYTES) : f[j] # NL

OverlongFiles == {f \in SeqsUpTo(FileBytes, MaxOverlongFileLen) : HasLongRun(f)}

InitOverlong ==
    /\ fs \in {[p \in Paths |-> IF p = 1 THEN f ELSE OtherFile] :
                  f \in OverlongFiles}
    /\ SeqIdle
    /\ ConcIdle

NextOverlong ==
    \/ \E p \in Paths : OpenFile(p, TRUE)
    \/ \E start \in Starts, count \in Counts, env \in Envs :
           ReadLines(start, count, env)

SpecOverlong == InitOverlong /\ [][NextOverlong]_vars

(***************************************************************************)
(* Reads of files that have carriage returns in them: lines that end with  *)
(* "\r\n", and carriage returns elsewhere.                                 *)
(***************************************************************************)
CrlfBytes == {97, CR, NL}

CrlfFiles == {f \in SeqsUpTo(CrlfBytes, MaxCrlfFileLen) :
                 \E i \in 1..Len(f) : f[i] = CR}

InitCrlf ==
    /\ fs \in {[p \in Paths |-> IF p = 1 THEN f ELSE OtherFile] :
                  f \in CrlfFiles}
    /\ SeqIdle
    /\ ConcIdle

NextCrlf ==
    \/ OpenFile(1, TRUE)
    \/ \E start \in Starts, count \in Counts, env \in Envs :
           ReadLines(start, count, env)

SpecCrlf == InitCrlf /\ [][NextCrlf]_vars

(***************************************************************************)
(* The public functions called by several callers at a time.  A call is a  *)
(* sequence of steps, and pc says where its caller stands:                 *)
(*   idle    between two calls                                             *)
(*   index   open_file: the dialog gave a path, the file is to be indexed  *)
(*   wait    at LARGE_FILE_PREVIEW.lock().await                            *)
(*   cs      holding the registry lock                                     *)
(*   search  holding the registry lock, at the loop condition of           *)
(*           mmap_search                                                   *)
(*   match   holding the registry lock, at the body of that loop           *)
(*   work    read_lines: the lock is released, the worker closure starts   *)
(*   store   the worker has mapped a window and is to store it             *)
(*   reread  the worker has stored its window and is to lock and read      *)
(*   seek    the worker is at the fallback and has to seek                 *)
(*   fbread  the worker is at the reads of the fallback                    *)
(* A step is atomic when it touches shared state once, or under one lock.  *)
(***************************************************************************)
\* the file at path 1 for these callers: "a\n\na\na", four lines
ConcFile == <<97, NL, NL, 97, NL, 97>>

ConcStarts == {0, INDEX_INTERVAL}

ConcCounts == {1}

ConcNeedles == {<<>>, <<97>>}

\* the calls a caller can make that start at the registry lock
Requests ==
    {[NoCall EXCEPT !.kind = k] : k \in {"close", "total_lines", "file_size"}}
    \cup {[NoCall EXCEPT !.kind = "read", !.start = s, !.count = c, !.env = e] :
             s \in ConcStarts, c \in ConcCounts, e \in Envs}
    \cup {[NoCall EXCEPT !.kind = "search", !.needle = n] :
             n \in ConcNeedles}

InitConc ==
    /\ fs = [p \in Paths |-> IF p = 1 THEN ConcFile ELSE OtherFile]
    /\ SeqIdle
    /\ ConcIdle

\* the sessions something still refers to: the slot and the callers' clones
Referenced(s, c) == {s} \cup {c[p].sid : p \in Procs}

\* Drop: a session nothing refers to any more is freed
Collect(h, s, c) ==
    [i \in SessionIds |-> IF i \in Referenced(s, c) THEN h[i] ELSE NoSession]

\* the id of a session that is not alive
FreshId ==
    CHOOSE i \in SessionIds \ Referenced(slot, call) :
        \A j \in SessionIds \ Referenced(slot, call) : i <= j

\* a call at its return: its clone of the session and its mapping are dropped
Done(c, outcome) ==
    [c EXCEPT !.sid = 0, !.window = NoWindow, !.outcome = outcome]

\* a registry mutex that excludes nobody
LockIgnored == TRUE

\* the registry mutex can be taken
LockFree == lock = 0

\* the end of a call that holds the registry lock: the guard is dropped
Return(p, c) ==
    /\ call' = [call EXCEPT ![p] = c]
    /\ heap' = Collect(heap, slot', call')
    /\ lock' = 0
    /\ pc' = [pc EXCEPT ![p] = "idle"]

\* open_file up to the dialog's answer: a path, or 0 for nothing selected
OpenFilePick(p, path, io_ok) ==
    /\ pc[p] = "idle"
    /\ call' = [call EXCEPT ![p] =
                   [NoCall EXCEPT !.kind = "open", !.path = path,
                                  !.io_ok = io_ok,
                                  !.outcome = IF path = 0 THEN "no_file"
                                              ELSE "none"]]
    /\ pc' = [pc EXCEPT ![p] = IF path = 0 THEN "idle" ELSE "index"]
    /\ UNCHANGED <<fs, seqVars, slot, lock, heap>>

\* open_file: LargeFilePreview::open(path), before the lock is asked for
OpenFileIndex(p) ==
    /\ pc[p] = "index"
    /\ IF call[p].io_ok
          THEN /\ heap' = [heap EXCEPT ![FreshId] =
                              LargeFilePreviewOpen(call[p].path, fs[call[p].path])]
               /\ call' = [call EXCEPT ![p].sid = FreshId,
                                       ![p].value = Len(fs[call[p].path])]
               /\ pc' = [pc EXCEPT ![p] = "wait"]
          ELSE /\ call' = [call EXCEPT ![p] = Done(@, "io_err")]
               /\ pc' = [pc EXCEPT ![p] = "idle"]
               /\ UNCHANGED heap
    /\ UNCHANGED <<fs, seqVars, slot, lock>>

\* the other public functions start at the registry lock
Invoke(p, c) ==
    /\ pc[p] = "idle"
    /\ call' = [call EXCEPT ![p] = c]
    /\ pc' = [pc EXCEPT ![p] = "wait"]
    /\ UNCHANGED <<fs, seqVars, slot, lock, heap>>

\* LARGE_FILE_PREVIEW.lock().await returns
Acquire(p) ==
    /\ pc[p] = "wait"
    /\ LockFree
    /\ lock' = p
    /\ pc' = [pc EXCEPT ![p] = "cs"]
    /\ UNCHANGED <<fs, seqVars, slot, heap, call>>

\* open_file under the lock: the slot gets the new session, the old one goes
OpenFileInstall(p) ==
    /\ pc[p] = "cs"
    /\ call[p].kind = "open"
    /\ slot' = call[p].sid
    /\ Return(p, Done(call[p], "ok"))
    /\ UNCHANGED <<fs, seqVars>>

\* close_file under the lock
CloseFileLocked(p) ==
    /\ pc[p] = "cs"
    /\ call[p].kind = "close"
    /\ slot' = 0
    /\ Return(p, Done(call[p], IF slot # 0 THEN "ok" ELSE "not_open"))
    /\ UNCHANGED <<fs, seqVars>>

\* get_total_lines under the lock
GetTotalLinesLocked(p) ==
    /\ pc[p] = "cs"
    /\ call[p].kind = "total_lines"
    /\ UNCHANGED <<fs, seqVars, slot>>
    /\ Return(p, IF slot # 0
                    THEN [Done(call[p], "ok") EXCEPT
                             !.value = heap[slot].total_lines]
                    ELSE Done(call[p], "not_open"))

\* get_file_size under the lock
GetFileSizeLocked(p, meta_ok) ==
    /\ pc[p] = "cs"
    /\ call[p].kind = "file_size"
    /\ UNCHANGED <<fs, seqVars, slot>>
    /\ Return(p, IF slot = 0 THEN Done(call[p], "ok")
                 ELSE IF meta_ok
                    THEN [Done(call[p], "ok") EXCEPT
                             !.value = Len(fs[heap[slot].path])]
                 ELSE Done(call[p], "io_err"))

\* read_lines under the lock: the session is cloned and the guard dropped
ReadLinesClone(p) ==
    /\ pc[p] = "cs"
    /\ call[p].kind = "read"
    /\ IF slot = 0
          THEN /\ call' = [call EXCEPT ![p] = Done(@, "not_open")]
               /\ pc' = [pc EXCEPT ![p] = "idle"]
          ELSE /\ call' = [call EXCEPT ![p].sid = slot]
               /\ pc' = [pc EXCEPT ![p] = "work"]
    /\ lock' = 0
    /\ UNCHANGED <<fs, seqVars, slot, heap>>

\* mmap_search under the lock, up to its loop
MmapSearchStart(p) ==
    /\ pc[p] = "cs"
    /\ call[p].kind = "search"
    /\ UNCHANGED <<fs, seqVars, slot>>
    /\ IF slot = 0
          THEN Return(p, Done(call[p], "not_open"))
       ELSE IF Len(fs[heap[slot].path]) = 0
          THEN Return(p, Done(call[p], "ok"))
       ELSE /\ pc' = [pc EXCEPT ![p] = "search"]
            /\ UNCHANGED <<lock, heap, call>>

\* where the loop of a caller's mmap_search finds the next occurrence, or -1
FoundAt(p) ==
    Find(Haystack(fs[heap[slot].path], call[p].ignore_case), call[p].st.start,
         NeedleUsed(call[p].needle, call[p].ignore_case))

\* the loop condition of mmap_search: an occurrence is found and the body is
\* to run, or none is and the call returns; the lock is held all along
MmapSearchFind(p) ==
    /\ pc[p] = "search"
    /\ UNCHANGED <<fs, seqVars, slot>>
    /\ IF FoundAt(p) < 0
          THEN Return(p, Done(call[p], "ok"))
          ELSE /\ pc' = [pc EXCEPT ![p] = "match"]
               /\ UNCHANGED <<lock, heap, call>>

\* the body of the loop of mmap_search, for the occurrence found
MmapSearchIter(p) ==
    /\ pc[p] = "match"
    /\ LET content == fs[heap[slot].path]
       IN  call' = [call EXCEPT ![p].st =
                       SearchIter(@, Haystack(content, call[p].ignore_case),
                                  content,
                                  NeedleUsed(call[p].needle, call[p].ignore_case),
                                  FoundAt(p))]
    /\ pc' = [pc EXCEPT ![p] = "search"]
    /\ UNCHANGED <<fs, seqVars, slot, lock, heap>>

\* the window a worker plans, and the lines it has to skip in it
PlanOf(p) == WindowPlan(call[p].start, call[p].count, heap[call[p].sid].index)

SkipOf(p) == Max(call[p].start - PlanOf(p).base_line, 0)

\* where the fallback starts: at the seek when there is one
FallbackPc(p) == IF PlanOf(p).base_offset > 0 THEN "seek" ELSE "fbread"

\* a worker that looks for its session in the registry slot when it returns
WorkerReturnChecksSlot(p, h, outcome, text, served, from) ==
    /\ call' = [call EXCEPT ![p] =
                   IF slot = call[p].sid
                      THEN [Done(@, outcome) EXCEPT !.text = text,
                                                    !.served = served,
                                                    !.from = from]
                      ELSE Done(@, "not_open")]
    /\ heap' = Collect(h, slot, call')
    /\ pc' = [pc EXCEPT ![p] = "idle"]

\* the return of a worker with its text
WorkerReturn(p, h, outcome, text, served, from) ==
    /\ call' = [call EXCEPT ![p] =
                   [Done(@, outcome) EXCEPT !.text = text, !.served = served,
                                            !.from = from]]
    /\ heap' = Collect(h, slot, call')
    /\ pc' = [pc EXCEPT ![p] = "idle"]

\* the worker up to the mmap call: the cached window is read under the
\* cache lock when it covers the range, else a window is mapped when the
\* file has bytes there and the operating system lets it
ReadLinesCheck(p) ==
    /\ pc[p] = "work"
    /\ UNCHANGED <<fs, seqVars, slot, lock>>
    /\ LET s      == heap[call[p].sid]
           plan   == PlanOf(p)
           cached == IF ~s.poisoned /\ CacheCovers(s.cached_window, plan)
                        THEN WindowRead(fs, s.cached_window, plan.base_offset,
                                        SkipOf(p), call[p].count)
                        ELSE [panic |-> FALSE, ok |-> FALSE, out |-> <<>>]
           len    == ClipLen(plan, Len(fs[s.path]))
       IN  IF cached.ok
              THEN WorkerReturn(p, heap, "ok", cached.out, "cached", 0)
           ELSE IF len > 0 /\ call[p].env # "map_err"
              THEN /\ call' = [call EXCEPT ![p].window =
                                  [off |-> plan.aligned, len |-> len,
                                   file |-> s.path]]
                   /\ pc' = [pc EXCEPT ![p] = "store"]
                   /\ UNCHANGED heap
           ELSE /\ pc' = [pc EXCEPT ![p] = FallbackPc(p)]
                /\ UNCHANGED <<heap, call>>

\* *guard = Some((aligned, map_len, mmap)), under the cache lock
ReadLinesStore(p) ==
    /\ pc[p] = "store"
    /\ heap' = IF heap[call[p].sid].poisoned THEN heap
               ELSE [heap EXCEPT ![call[p].sid].cached_window = call[p].window]
    /\ call' = [call EXCEPT ![p].window = NoWindow]
    /\ pc' = [pc EXCEPT ![p] = "reread"]
    /\ UNCHANGED <<fs, seqVars, slot, lock>>

\* the cache lock is taken again and the window found in the slot is read
ReadLinesReread(p) ==
    /\ pc[p] = "reread"
    /\ UNCHANGED <<fs, seqVars, slot, lock>>
    /\ LET s == heap[call[p].sid]
           r == WindowRead(fs, s.cached_window, PlanOf(p).base_offset,
                           SkipOf(p), call[p].count)
       IN  IF s.poisoned
              THEN /\ pc' = [pc EXCEPT ![p] = FallbackPc(p)]
                   /\ UNCHANGED <<heap, call>>
           ELSE IF r.panic
              THEN WorkerReturn(p, [heap EXCEPT ![call[p].sid].poisoned = TRUE],
                                "panic", <<>>, "fresh", 0)
           ELSE IF r.ok
              THEN WorkerReturn(p, heap, "ok", r.out, "fresh", 0)
           ELSE /\ pc' = [pc EXCEPT ![p] = FallbackPc(p)]
                /\ UNCHANGED <<heap, call>>

\* reader.seek(SeekFrom::Start(base_offset))
ReadLinesSeek(p) ==
    /\ pc[p] = "seek"
    /\ heap' = [heap EXCEPT ![call[p].sid].cursor = PlanOf(p).base_offset]
    /\ pc' = [pc EXCEPT ![p] = "fbread"]
    /\ UNCHANGED <<fs, seqVars, slot, lock, call>>

\* the two loops of the fallback, from where the file description stands
ReadLinesFallback(p) ==
    /\ pc[p] = "fbread"
    /\ UNCHANGED <<fs, seqVars, slot, lock>>
    /\ LET s  == heap[call[p].sid]
           fb == FallbackRead(fs[s.path], s.cursor, PlanOf(p).base_line,
                              call[p].start, call[p].count)
       IN  WorkerReturn(p, [heap EXCEPT ![call[p].sid].cursor = fb.cursor],
                        "ok", fb.out, "fallback", fb.from)

\* the steps of a call that it takes at the registry lock and under it
LockedStep(p) ==
    \/ Acquire(p)
    \/ OpenFileInstall(p)
    \/ CloseFileLocked(p)
    \/ GetTotalLinesLocked(p)
    \/ \E meta_ok \in BOOLEAN : GetFileSizeLocked(p, meta_ok)
    \/ MmapSearchStart(p)
    \/ MmapSearchFind(p)
    \/ MmapSearchIter(p)

\* the steps of read_lines once it holds the lock: the clone, then the worker
ReadLinesStep(p) ==
    \/ ReadLinesClone(p)
    \/ ReadLinesCheck(p)
    \/ ReadLinesStore(p)
    \/ ReadLinesReread(p)
    \/ ReadLinesSeek(p)
    \/ ReadLinesFallback(p)

NextConc ==
    \E p \in Procs :
        \/ \E path \in Paths \cup {0}, io_ok \in BOOLEAN :
               OpenFilePick(p, path, io_ok)
        \/ \E c \in Requests : Invoke(p, c)
        \/ OpenFileIndex(p)
        \/ LockedStep(p)
        \/ ReadLinesStep(p)

SpecConc == InitConc /\ [][NextConc]_vars

(***************************************************************************)
(* The callers making only the calls that do all their work under the      *)
(* registry lock (and open_file, which indexes before it takes the lock).  *)
(* The executor runs every task that can run: a call that holds the lock,  *)
(* or that waits for a lock that stays free, takes its next step.          *)
(***************************************************************************)
LockedRequests == {c \in Requests : c.kind # "read"}

NextLocked ==
    \E p \in Procs :
        \/ \E path \in Paths \cup {0}, io_ok \in BOOLEAN :
               OpenFilePick(p, path, io_ok)
        \/ \E c \in LockedRequests : Invoke(p, c)
        \/ OpenFileIndex(p)
        \/ LockedStep(p)

SpecLocked == InitConc /\ [][NextLocked]_vars

FairSpecLocked == SpecLocked /\ \A p \in Procs : WF_vars(LockedStep(p))

(***************************************************************************)
(* The reference: a naive scan of the whole file.  Lines are the segments  *)
(* the newline bytes cut the file into; a last segment without newline is  *)
(* a line when it is not empty.                                            *)
(***************************************************************************)
NewlinesOf(content) == {i \in 1..Len(content) : content[i] = NL}

NaiveLineCount(content) ==
    Cardinality(NewlinesOf(content))
        + (IF Len(content) > 0 /\ content[Len(content)] # NL THEN 1 ELSE 0)

\* the offset of the first byte of line k (from 0), for k <= the newline count
NaiveLineStart(content, k) ==
    IF k = 0 THEN 0
    ELSE CHOOSE i \in NewlinesOf(content) :
             Cardinality({j \in NewlinesOf(content) : j <= i}) = k

\* the offset just past the last byte of line k, its newline not counted
NaiveLineEnd(content, k) ==
    LET from == NaiveLineStart(content, k)
        nls  == {i \in NewlinesOf(content) : i > from}
    IN  IF nls = {} THEN Len(content)
        ELSE (CHOOSE i \in nls : \A j \in nls : i <= j) - 1

\* line k without its newline
NaiveLine(content, k) ==
    Slice(content, NaiveLineStart(content, k), NaiveLineEnd(content, k))

\* lines first .. first + n - 1, each followed by one newline
RECURSIVE NaiveText(_, _, _)
NaiveText(content, first, n) ==
    IF n <= 0 THEN <<>>
    ELSE NaiveLine(content, first) \o <<NL>> \o NaiveText(content, first + 1, n - 1)

\* no line of the file, its newline counted, is longer than the ceiling
NoOverlongLine(content) ==
    \A k \in 0..(NaiveLineCount(content) - 1) :
        Len(NaiveLine(content, k)) + 1 <= MAX_LINE_BYTES

\* the file of the session in the slot
CurrentFile == fs[reg.path]

(***************************************************************************)
(* C1: for every start < total_lines and every count, read_lines(start,    *)
(* count) returns exactly min(count, total_lines - start) lines, the i-th  *)
(* one being line start + i of the naive scan, whatever the lines' length  *)
(* (files with an overlong line and calls the operating system fails are   *)
(* left out of the statement).                                             *)
(***************************************************************************)
C1_ReadLinesMatchesNaiveScan ==
    (/\ lastOp.kind = "read"
     /\ lastOp.was_open
     /\ lastOp.env = "ok"
     /\ NoOverlongLine(CurrentFile)
     /\ lastOp.start < NaiveLineCount(CurrentFile))
    => /\ lastOp.outcome = "ok"
       /\ lastOp.text =
              NaiveText(CurrentFile, lastOp.start,
                        Min(lastOp.count,
                            NaiveLineCount(CurrentFile) - lastOp.start))

(***************************************************************************)
(* C2: the total_lines computed by LargeFilePreview::open is the number of *)
(* newline bytes of the file, plus one when the file ends with a non-empty *)
(* segment without newline; an empty file has 0 lines.                     *)
(***************************************************************************)
C2_TotalLinesIsNaiveCount ==
    IsOpen(reg) => reg.total_lines = NaiveLineCount(CurrentFile)

\* an open file whose first line spans two chunks and whose last line has no
\* newline
C2_Witness ==
    /\ IsOpen(reg)
    /\ Len(CurrentFile) > CHUNK_SIZE
    /\ NaiveLineEnd(CurrentFile, 0) > CHUNK_SIZE
    /\ CurrentFile[Len(CurrentFile)] # NL
    /\ reg.total_lines >= 2

(***************************************************************************)
(* C6: for every start >= total_lines, read_lines(start, count) on an open *)
(* session returns Ok with empty text.                                     *)
(***************************************************************************)
C6_PastTheEndIsEmpty ==
    (/\ lastOp.kind = "read"
     /\ lastOp.was_open
     /\ lastOp.env = "ok"
     /\ lastOp.start >= reg.total_lines)
    => /\ lastOp.outcome = "ok"
       /\ lastOp.text = <<>>

(***************************************************************************)
(* C5: each read_lines call works on its own file cursor: the position     *)
(* from which a call's sequential reads start is the one its own handle    *)
(* gives it - base_offset, where it seeks to when base_offset > 0 and      *)
(* where a handle of its own stands when it does not seek (0) - whatever   *)
(* the indexing scan and earlier calls read or sought.                     *)
(***************************************************************************)
C5_OwnCursor ==
    (/\ lastOp.kind = "read"
     /\ lastOp.outcome = "ok"
     /\ lastOp.env = "ok"
     /\ lastOp.served = "fallback")
    => lastOp.from = lastOp.base_offset

\* the lines of a text whose lines each end with a newline
RECURSIVE LinesOfText(_)
LinesOfText(text) ==
    LET k == IndexOf(text, NL)
    IN  IF k = 0 THEN <<>>
        ELSE <<SubSeq(text, 1, k - 1)>>
                 \o LinesOfText(SubSeq(text, k + 1, Len(text)))

\* line i (from 0) of a list of lines: <<line>>, or <<>> when there is none
LineAt(ls, i) == IF i >= 0 /\ i < Len(ls) THEN <<ls[i + 1]>> ELSE <<>>

(***************************************************************************)
(* C7: round trip.  Whatever window a read_lines call finds in the cache   *)
(* slot, the line it returns for each line number is the one a single call *)
(* covering a union of ranges (any range that contains the call's own)     *)
(* returns for that number on the freshly opened file.                     *)
(***************************************************************************)
C7_RoundTrip ==
    (/\ lastOp.kind = "read"
     /\ lastOp.was_open
     /\ lastOp.env = "ok"
     /\ NoOverlongLine(CurrentFile))
    => \A s0 \in Starts, c0 \in Counts :
           (s0 <= lastOp.start /\ s0 + c0 >= lastOp.start + lastOp.count)
           => LET fresh == LargeFilePreviewOpen(reg.path, CurrentFile)
                  big   == LinesOfText(
                               ReadLinesRun(fresh, fs, s0, c0, "ok").text)
                  small == LinesOfText(lastOp.text)
              IN  \A n \in lastOp.start..(lastOp.start + lastOp.count - 1) :
                      LineAt(small, n - lastOp.start) = LineAt(big, n - s0)

(***************************************************************************)
(* C9: on an empty registry get_total_lines, read_lines, mmap_search and   *)
(* close_file fail with "No file is currently opened", get_file_size       *)
(* returns Ok(0), and the registry is still empty afterwards.              *)
(***************************************************************************)
C9_EmptyRegistry ==
    (lastOp.kind \in {"total_lines", "file_size", "read", "search", "close"}
        /\ ~lastOp.was_open)
    => /\ ~IsOpen(reg)
       /\ IF lastOp.kind = "file_size"
             THEN lastOp.outcome = "ok" /\ lastOp.value = 0
             ELSE lastOp.outcome = "not_open"

\* a close_file that fails on a slot an earlier close_file emptied
C9_Witness ==
    /\ lastOp.kind = "close"
    /\ lastOp.outcome = "not_open"
    /\ emptied
    /\ ~IsOpen(reg)

(***************************************************************************)
(* The reference for the search: a scan of the file position by position,  *)
(* taking an occurrence where the needle stands and no occurrence taken    *)
(* before reaches.                                                         *)
(***************************************************************************)
Fold(b, ignore_case) == IF ignore_case THEN ToAsciiLowercase(b) ELSE b

StandsAt(content, needle, ignore_case, i) ==
    /\ i + Len(needle) <= Len(content)
    /\ \A k \in 1..Len(needle) :
           Fold(content[i + k], ignore_case) = Fold(needle[k], ignore_case)

\* the offsets of the occurrences taken from offset i on, free being the
\* first offset no occurrence taken so far covers
RECURSIVE Occurrences(_, _, _, _, _)
Occurrences(content, needle, ignore_case, i, free) ==
    IF i + Len(needle) > Len(content) THEN <<>>
    ELSE IF i >= free /\ StandsAt(content, needle, ignore_case, i)
         THEN <<i>> \o Occurrences(content, needle, ignore_case, i + 1,
                                   i + Len(needle))
         ELSE Occurrences(content, needle, ignore_case, i + 1, free)

\* the line (from 0) that holds offset i: the newlines before it
NaiveLineOf(content, i) == Cardinality({j \in NewlinesOf(content) : j <= i})

(***************************************************************************)
(* C3: mmap_search returns count = N, the number of non-overlapping        *)
(* occurrences of the needle a left-to-right scan finds; matches holds     *)
(* min(N, MAX_MATCHES_RETURN) records in file order, the k-th one on the   *)
(* line of the k-th occurrence (and, the files being ASCII, at its         *)
(* column); an absent needle gives count 0, no record and no first_match.  *)
(***************************************************************************)
C3_SearchCountsOccurrences ==
    (lastOp.kind = "search" /\ lastOp.was_open)
    => LET occ == Occurrences(CurrentFile, lastOp.needle,
                              lastOp.ignore_case, 0, 0)
           f   == lastOp.found
       IN  /\ lastOp.outcome = "ok"
           /\ f.count = Len(occ)
           /\ Len(f.matches) = Min(Len(occ), MAX_MATCHES_RETURN)
           /\ \A k \in 1..Len(f.matches) :
                  /\ f.matches[k].line = NaiveLineOf(CurrentFile, occ[k])
                  /\ f.matches[k].column =
                         occ[k] - NaiveLineStart(CurrentFile, f.matches[k].line)
           /\ (Len(occ) = 0 => f.matches = <<>> /\ f.first_match = <<>>)

\* a search with more occurrences than records, the second one past line 0
C3_Witness ==
    /\ lastOp.kind = "search"
    /\ lastOp.was_open
    /\ lastOp.found.count > MAX_MATCHES_RETURN
    /\ Len(lastOp.found.matches) = MAX_MATCHES_RETURN
    /\ lastOp.found.matches[2].line > 0

\* the caller holds the registry lock
HoldsLock(p) == pc[p] \in {"cs", "search", "match"}

\* the caller is in the worker closure of read_lines
InWorker(p) == pc[p] \in {"work", "store", "reread", "seek", "fbread"}

\* the session a caller is working on, as a set: none when it is not at work
WorksOn(p) ==
    IF InWorker(p) THEN {call[p].sid}
    ELSE IF HoldsLock(p) /\ call[p].kind = "open" THEN {slot, call[p].sid} \ {0}
    ELSE IF HoldsLock(p) THEN {slot} \ {0}
    ELSE {}

(***************************************************************************)
(* C4, as the specification states it: all public operations are mutually  *)
(* exclusive at the session level - no two callers are at work on the same *)
(* session at the same time, the line reading of read_lines and its        *)
(* updates of the cache slot included.                                     *)
(***************************************************************************)
C4_SessionLevelExclusion ==
    \A p, q \in Procs : p # q => WorksOn(p) \cap WorksOn(q) = {}

(***************************************************************************)
(* C4, as the code has it: the registry mutex excludes the callers from    *)
(* the slot only.  At most one caller holds it, the holder is the one the  *)
(* mutex names, and a read_lines worker runs without it - its line reading *)
(* and its cache-slot updates are outside the registry lock.               *)
(***************************************************************************)
C4_RegistryLockExclusion ==
    /\ \A p, q \in Procs : (HoldsLock(p) /\ HoldsLock(q)) => p = q
    /\ \A p \in Procs : HoldsLock(p) => lock = p
    /\ \A p \in Procs : InWorker(p) => lock # p

\* a search holds the registry lock while a read_lines worker of another
\* caller is about to read the cache slot of the same session
C4_Witness ==
    \E p, q \in Procs :
        /\ pc[p] = "search"
        /\ lock = p
        /\ pc[q] = "reread"
        /\ call[q].sid = slot

(***************************************************************************)
(* C8: once started, every mmap_search call on an open session eventually  *)
(* returns and releases the registry lock, for every needle, the empty     *)
(* one included (no needle is rejected).                                   *)
(***************************************************************************)
C8_EverySearchReturns ==
    \A p \in Procs : (pc[p] = "search") ~> (pc[p] = "idle" /\ lock # p)

(***************************************************************************)
(* C10: the registry holds at most one session.  A successful open_file    *)
(* replaces the slot wholesale with the newly indexed session: its path,   *)
(* total_lines and index are those of the new file and its cache slot is   *)
(* empty; the window in the cache slot of the session held is never one    *)
(* mapped from another file; a successful close_file leaves the slot       *)
(* empty.                                                                  *)
(***************************************************************************)
C10_OpenReplacesCloseEmpties ==
    /\ (lastOp.kind = "open" /\ lastOp.outcome = "ok")
       => /\ reg.path = lastOp.path
          /\ reg.total_lines = NaiveLineCount(fs[lastOp.path])
          /\ reg.index = ScanFile(ScanInit, fs[lastOp.path], 0, CHUNK_SIZE).index
          /\ reg.cached_window = NoWindow
    /\ (lastOp.kind = "close" /\ lastOp.outcome = "ok") => reg = NoSession
    /\ IsOpen(reg) => reg.cached_window.file \in {0, reg.path}

\* the file at path 2 has just been opened over a session on the file at
\* path 1 whose cache slot held a window
C10_Witness ==
    /\ lastOp.kind = "open"
    /\ lastOp.outcome = "ok"
    /\ lastOp.path = 2
    /\ lastOp.prev_path = 1
    /\ lastOp.had_window
    /\ reg.path = 2

(***************************************************************************)
(* C11: an open_file that fails - nothing selected, the path cannot be     *)
(* opened, or a read of the indexing scan fails - installs nothing: the    *)
(* registry slot after the call is exactly the slot before it (the session *)
(* held, its index, its cache slot and its file position), so the session  *)
(* held answers every later call as it would have.                         *)
(***************************************************************************)
C11_FailedOpenInstallsNothing ==
    [][(lastOp'.kind = "open" /\ lastOp'.outcome # "ok")
          => (reg' = reg /\ fs' = fs /\ emptied' = emptied)]_vars

\* an open_file has just failed on I/O while a session with a window in its
\* cache slot was open, and that session is still the one in the slot
C11_Witness ==
    /\ lastOp.kind = "open"
    /\ lastOp.outcome = "io_err"
    /\ lastOp.was_open
    /\ lastOp.had_window
    /\ lastOp.prev_path = reg.path
    /\ lastOp.path # reg.path
    /\ reg.cached_window # NoWindow

\* the call found no window to read: the cache slot did not serve it, and
\* the mapping call failed, or the metadata could not be read, or the
\* clipped length is zero (the aligned offset is at or past the file's end)
NoWindowObtained ==
    /\ lastOp.kind = "read"
    /\ lastOp.was_open
    /\ lastOp.served # "cached"
    /\ lastOp.env \in {"ok", "map_err", "meta_err"}
    /\ \/ lastOp.env \in {"map_err", "meta_err"}
       \/ ClipLen(WindowPlan(lastOp.start, lastOp.count, reg.index),
                  Len(CurrentFile)) = 0

(***************************************************************************)
(* C12: a mapping failure is never fatal to read_lines.  When no window    *)
(* can be obtained the call returns Ok with the lines the sequential       *)
(* reader yields; read_lines never panics here, and it returns an error    *)
(* only when duplicating the handle, or the seek or a read of the          *)
(* fallback, fails.                                                        *)
(***************************************************************************)
C12_MappingFailureNotFatal ==
    /\ NoWindowObtained
       => /\ lastOp.outcome = "ok"
          /\ lastOp.served = "fallback"
          /\ lastOp.text =
                 FallbackRead(CurrentFile, lastOp.from,
                              Anchor(lastOp.start, reg.index).base_line,
                              lastOp.start, lastOp.count).out
    /\ (lastOp.kind = "read" /\ lastOp.was_open)
       => /\ lastOp.outcome \in {"ok", "io_err"}
          /\ lastOp.outcome = "io_err"
                => lastOp.env \in {"dup_err", "seek_err", "read_err"}

\* the mapping call failed and the fallback, after its seek, returned a line
C12_Witness ==
    /\ NoWindowObtained
    /\ lastOp.env = "map_err"
    /\ lastOp.base_offset > 0
    /\ lastOp.served = "fallback"
    /\ lastOp.text # <<>>

\* line k of the file is longer than the ceiling, its newline not counted
Overlong(content, k) == Len(NaiveLine(content, k)) > MAX_LINE_BYTES

\* the first overlong line among lines from .. to - 1 of the file, or -1
FirstOverlong(content, from, to) ==
    LET ks == {k \in from..(Min(to, NaiveLineCount(content)) - 1) :
                  Overlong(content, k)}
    IN  IF ks = {} THEN -1 ELSE CHOOSE k \in ks : \A j \in ks : k <= j

(***************************************************************************)
(* C13: when the range of a read_lines call reaches an overlong line, the  *)
(* call returns the lines before it unchanged, then the first              *)
(* MAX_LINE_BYTES bytes of that line, lossily decoded, and one newline,    *)
(* and nothing after it - whatever the count.  The statement is taken     *)
(* here for the calls a window serves, cached or fresh, and for an         *)
(* overlong line that is the first one of the file, so that the index      *)
(* entries the call starts from are those of the naive scan.               *)
(***************************************************************************)
C13_OverlongLineTruncated ==
    LET k == FirstOverlong(CurrentFile, lastOp.start,
                           lastOp.start + lastOp.count)
    IN  (/\ lastOp.kind = "read"
         /\ lastOp.was_open
         /\ lastOp.served \in {"cached", "fresh"}
         /\ k >= 0
         /\ FirstOverlong(CurrentFile, 0, k) = -1)
        => /\ lastOp.outcome = "ok"
           /\ lastOp.text =
                  NaiveText(CurrentFile, lastOp.start, k - lastOp.start)
                  \o Utf8Lossy(SubSeq(NaiveLine(CurrentFile, k), 1,
                                      MAX_LINE_BYTES))
                  \o <<NL>>

\* two bytes are equal, or are the two cases of one ASCII letter
SameUpToCase(x, y) ==
    \/ x = y
    \/ x >= 65 /\ x <= 90 /\ y = x + 32
    \/ y >= 65 /\ y <= 90 /\ x = y + 32

\* the offsets (from 0) where the needle stands in the file, byte for byte
\* or up to letter case
StandsExactly(content, needle) ==
    {i \in 0..(Len(content) - Len(needle)) :
        \A k \in 1..Len(needle) : content[i + k] = needle[k]}

StandsUpToCase(content, needle) ==
    {i \in 0..(Len(content) - Len(needle)) :
        \A k \in 1..Len(needle) : SameUpToCase(content[i + k], needle[k])}

\* the offsets of ps a left-to-right scan takes from offset from on: the
\* first one, then the first one at or past its end, and so on
RECURSIVE Taken(_, _, _)
Taken(ps, n, from) ==
    LET rest == {i \in ps : i >= from}
    IN  IF rest = {} THEN <<>>
        ELSE LET i == CHOOSE i \in rest : \A j \in rest : i <= j
             IN  <<i>> \o Taken(ps, n, i + n)

(***************************************************************************)
(* C14: with ignore_case = true mmap_search reports the occurrences of the *)
(* needle up to ASCII letter case, and extra_alloc_bytes is the length of  *)
(* the file, more than 0 when the file is not empty; with ignore_case =    *)
(* false it reports the byte-exact occurrences only, and extra_alloc_bytes *)
(* is 0.                                                                   *)
(***************************************************************************)
C14_CaseSensitivity ==
    (lastOp.kind = "search" /\ lastOp.was_open)
    => LET f   == lastOp.found
           ps  == IF lastOp.ignore_case
                     THEN StandsUpToCase(CurrentFile, lastOp.needle)
                     ELSE StandsExactly(CurrentFile, lastOp.needle)
           occ == Taken(ps, Len(lastOp.needle), 0)
       IN  /\ f.count = Len(occ)
           /\ \A k \in 1..Len(f.matches) :
                  f.matches[k].line = NaiveLineOf(CurrentFile, occ[k])
           /\ f.extra_alloc = IF lastOp.ignore_case THEN Len(CurrentFile) ELSE 0
           /\ (lastOp.ignore_case /\ Len(CurrentFile) > 0) => f.extra_alloc > 0

\* a case-insensitive search with an upper-case needle that stands nowhere
\* byte for byte and is found twice, in two letter cases
C14_Witness ==
    /\ lastOp.kind = "search"
    /\ lastOp.was_open
    /\ lastOp.ignore_case
    /\ lastOp.needle = <<65, 65>>
    /\ StandsExactly(CurrentFile, lastOp.needle) = {}
    /\ \E i, j \in StandsUpToCase(CurrentFile, lastOp.needle) :
           /\ i + 2 <= j
           /\ CurrentFile[i + 1] # CurrentFile[j + 1]
    /\ lastOp.found.count = 2
    /\ lastOp.found.extra_alloc = Len(CurrentFile)

\* the number of Unicode scalar values a run of bytes shows as
CharCount(bs) == Len(Utf8Lossy(bs))

\* the record the occurrence at offset i of the file should get
ExpectedRecord(content, needle, i) ==
    LET line == NaiveLineOf(content, i)
    IN  [line   |-> line,
         column |-> CharCount(Slice(content, NaiveLineStart(content, line), i)),
         length |-> CharCount(Slice(content, i, i + Len(needle)))]

(***************************************************************************)
(* C15: every match record, and first_match, gives as column the number of *)
(* Unicode scalar values between the start of the match's line and the     *)
(* match, and as length the number of Unicode scalar values of the matched *)
(* region, for every file content.                                         *)
(***************************************************************************)
C15_ColumnsInScalarValues ==
    (lastOp.kind = "search" /\ lastOp.was_open)
    => LET f   == lastOp.found
           ps  == IF lastOp.ignore_case
                     THEN StandsUpToCase(CurrentFile, lastOp.needle)
                     ELSE StandsExactly(CurrentFile, lastOp.needle)
           occ == Taken(ps, Len(lastOp.needle), 0)
       IN  /\ \A k \in 1..Len(f.matches) :
                  f.matches[k] = ExpectedRecord(CurrentFile, lastOp.needle, occ[k])
           /\ f.first_match # <<>>
                 => f.first_match[1]
                        = ExpectedRecord(CurrentFile, lastOp.needle, occ[1])

(***************************************************************************)
(* C16: the bounds of a search result.  matches never holds more than      *)
(* MAX_MATCHES_RETURN records and samples never more than MAX_SAMPLES      *)
(* lines, while count counts every occurrence, those past the caps too:    *)
(* the number of records is min(count, MAX_MATCHES_RETURN).  first_match   *)
(* is present exactly when count > 0 and is the first record of matches,   *)
(* the one of the first occurrence: no later occurrence sets it again.     *)
(***************************************************************************)
C16_SearchResultBounds ==
    (lastOp.kind = "search" /\ lastOp.was_open)
    => LET f   == lastOp.found
           ps  == IF lastOp.ignore_case
                     THEN StandsUpToCase(CurrentFile, lastOp.needle)
                     ELSE StandsExactly(CurrentFile, lastOp.needle)
           occ == Taken(ps, Len(lastOp.needle), 0)
       IN  /\ Len(f.matches) <= MAX_MATCHES_RETURN
           /\ Len(f.samples) <= MAX_SAMPLES
           /\ f.count = Len(occ)
           /\ f.count >= Len(f.matches)
           /\ Len(f.matches) = Min(f.count, MAX_MATCHES_RETURN)
           /\ (f.first_match # <<>>) <=> (f.count > 0)
           /\ Len(f.first_match) <= 1
           /\ f.count > 0
                 => /\ f.first_match[1] = f.matches[1]
                    /\ f.first_match[1].line = NaiveLineOf(CurrentFile, occ[1])

\* a search with more occurrences than MAX_MATCHES_RETURN and more matching
\* lines than MAX_SAMPLES, both lists full, the last occurrence on another
\* line than the first
C16_Witness ==
    /\ lastOp.kind = "search"
    /\ lastOp.was_open
    /\ lastOp.found.count > MAX_MATCHES_RETURN
    /\ lastOp.found.count > MAX_SAMPLES
    /\ Len(lastOp.found.matches) = MAX_MATCHES_RETURN
    /\ Len(lastOp.found.samples) = MAX_SAMPLES
    /\ lastOp.found.first_match = <<lastOp.found.matches[1]>>
    /\ lastOp.found.first_match[1].line = 0
    /\ CurrentFile[Len(CurrentFile) - 1] = NL
    /\ CurrentFile[Len(CurrentFile)] = lastOp.needle[1]

(***************************************************************************)
(* C17: when read_lines takes the sequential fallback, the text it returns *)
(* is the one a reader gives that starts at byte base_offset of the file,  *)
(* skips start - base_line lines and emits up to count lines - for every   *)
(* anchor, base_offset = 0 included, and whatever was read before through  *)
(* the session's file handle (the indexing scan, earlier fallback reads).  *)
(***************************************************************************)
C17_FallbackReadsFromBaseOffset ==
    (/\ lastOp.kind = "read"
     /\ lastOp.was_open
     /\ lastOp.outcome = "ok"
     /\ lastOp.served = "fallback")
    => lastOp.text =
           FallbackRead(CurrentFile, lastOp.base_offset,
                        Anchor(lastOp.start, reg.index).base_line,
                        lastOp.start, lastOp.count).out

\* the window a worker maps for its own call
OwnWindow(p) ==
    [off  |-> PlanOf(p).aligned,
     len  |-> ClipLen(PlanOf(p), Len(fs[heap[call[p].sid].path])),
     file |-> heap[call[p].sid].path]

(***************************************************************************)
(* C18: when read_lines calls on one session run at the same time, each    *)
(* returns the text it would return alone and none panics; a call that has *)
(* mapped a window and stored it in the cache slot decodes its lines from  *)
(* that window, whatever another call stores in the slot between its store *)
(* and its re-lock.                                                        *)
(***************************************************************************)
C18_ConcurrentReadsAsAlone ==
    [][\A p \in Procs :
          (pc[p] = "reread" /\ pc'[p] = "idle")
          => LET own == WindowRead(fs, OwnWindow(p), PlanOf(p).base_offset,
                                   SkipOf(p), call[p].count)
             IN  /\ call'[p].outcome = "ok"
                 /\ own.ok
                 /\ call'[p].text = own.out]_vars

\* the bytes line k takes in the file, its newline counted when it has one
RawLineLen(content, k) ==
    Len(NaiveLine(content, k))
        + (IF NaiveLineEnd(content, k) < Len(content) THEN 1 ELSE 0)

\* no line of the file takes more bytes than the ceiling
NoLineOverCeiling(content) ==
    \A k \in 0..(NaiveLineCount(content) - 1) :
        RawLineLen(content, k) <= MAX_LINE_BYTES

(***************************************************************************)
(* C19: for a file in which no line exceeds the ceiling, the sparse index  *)
(* built at open has exactly total_lines \div INDEX_INTERVAL entries, and  *)
(* entry k (from 0) is the offset of the first byte of line                *)
(* (k + 1) * INDEX_INTERVAL - the length of the file when the file has     *)
(* exactly that many lines and the line does not exist.                    *)
(***************************************************************************)
C19_SparseIndexOffsets ==
    (IsOpen(reg) /\ NoLineOverCeiling(CurrentFile))
    => /\ Len(reg.index) = reg.total_lines \div INDEX_INTERVAL
       /\ \A k \in 0..(Len(reg.index) - 1) :
              reg.index[k + 1] =
                  IF (k + 1) * INDEX_INTERVAL < NaiveLineCount(CurrentFile)
                     THEN NaiveLineStart(CurrentFile, (k + 1) * INDEX_INTERVAL)
                     ELSE Len(CurrentFile)

\* an open file of lines within the ceiling, the first one not empty, with
\* an index entry for a line that exists and a last entry for the end of the
\* file, after a last line without newline
C19_Witness ==
    /\ IsOpen(reg)
    /\ NoLineOverCeiling(CurrentFile)
    /\ RawLineLen(CurrentFile, 0) >= 2
    /\ Len(reg.index) >= 2
    /\ reg.index[1] < Len(CurrentFile)
    /\ reg.index[Len(reg.index)] = Len(CurrentFile)
    /\ CurrentFile[Len(CurrentFile)] # NL

(***************************************************************************)
(* C20: the result of indexing, total_lines and the sparse index, depends  *)
(* on the bytes of the file only, not on how the reads split them: for     *)
(* every file, those with lines longer than the ceiling included, any two  *)
(* chunkings give the same total_lines and the same index offsets.         *)
(***************************************************************************)
C20_IndexIndependentOfChunking ==
    (lastOp.kind = "open" /\ IsOpen(reg))
    => \A cuts \in Chunkings(Len(CurrentFile)) :
           LET st == ScanFileBy(ScanInit, CurrentFile, 0, cuts)
           IN  /\ st.total = reg.total_lines
               /\ st.index = reg.index

(***************************************************************************)
(* C21: every window a read_lines call stores in the cache slot is, when   *)
(* it is stored, well formed: its offset is a multiple of PAGE_SIZE and at *)
(* most the anchor's base_offset, its length is more than 0 and at most    *)
(* WINDOW_CAP, and it ends at or before the end of the file; the slot      *)
(* holds nothing or that one window, a window of the session's own file.   *)
(***************************************************************************)
C21_StoredWindowWellFormed ==
    [][(/\ reg'.cached_window # NoWindow
        /\ \/ reg'.cached_window # reg.cached_window
           \/ lastOp'.served = "fresh")
       => LET w == reg'.cached_window
          IN  /\ lastOp'.kind = "read"
              /\ w.off % PAGE_SIZE = 0
              /\ w.off <= lastOp'.base_offset
              /\ w.len > 0
              /\ w.len <= WINDOW_CAP
              /\ w.off + w.len <= Len(fs[reg.path])
              /\ w.file = reg'.path]_vars

\* a window has just been stored that starts at a page before its call's
\* base_offset, past the start of the file, and was clipped to the file's end
C21_Witness ==
    /\ lastOp.kind = "read"
    /\ lastOp.served = "fresh"
    /\ reg.cached_window.off > 0
    /\ reg.cached_window.off < lastOp.base_offset
    /\ reg.cached_window.off + reg.cached_window.len = Len(CurrentFile)
    /\ reg.cached_window.len
           < WindowPlan(lastOp.start, lastOp.count, reg.index).map_len

(***************************************************************************)
(* C22: cache reuse.  A read_lines call that finds in the slot a window    *)
(* that covers the range it needs from base_offset is served from that     *)
(* window and leaves the slot as it was; any other call that maps a window *)
(* puts that window in the slot in place of the one before.  And a call    *)
(* that was served from a window it mapped has left a window from which    *)
(* the same request is served again without a second mapping.              *)
(***************************************************************************)
\* the request of the call just made, made once more, is served from the slot
RepeatIsCached ==
    LET r == ReadLinesRun(reg, fs, lastOp.start, lastOp.count, "ok")
    IN  /\ r.served = "cached"
        /\ r.cached_window = reg.cached_window
        /\ r.text = lastOp.text

\* a read_lines step reuses a covering window and replaces any other
ReuseOrReplace ==
    (/\ lastOp'.kind = "read"
     /\ lastOp'.outcome = "ok"
     /\ lastOp'.env = "ok"
     /\ ~reg.poisoned)
    => LET plan == WindowPlan(lastOp'.start, lastOp'.count, reg.index)
           len  == ClipLen(plan, Len(fs[reg.path]))
       IN  IF CacheCovers(reg.cached_window, plan)
              THEN /\ lastOp'.served = "cached"
                   /\ reg'.cached_window = reg.cached_window
              ELSE len > 0 =>
                   /\ lastOp'.served \in {"fresh", "fallback"}
                   /\ reg'.cached_window =
                          [off |-> plan.aligned, len |-> len, file |-> reg.path]

C22_CacheReuse ==
    /\ []((/\ IsOpen(reg)
           /\ lastOp.kind = "read"
           /\ lastOp.outcome = "ok"
           /\ lastOp.served = "fresh") => RepeatIsCached)
    /\ [][ReuseOrReplace]_vars

\* the caller is inside mmap_search, between taking the registry lock and
\* its return
Searching(p) == HoldsLock(p) /\ call[p].kind = "search"

(***************************************************************************)
(* C23: mmap_search holds the registry lock from before it looks at the    *)
(* slot until it returns.  In every step taken while a caller is inside a  *)
(* search, the searcher is the holder of the lock, the slot keeps the      *)
(* session it has (no close_file and no open_file installation takes       *)
(* effect), that session stays alive with its path, total_lines and index, *)
(* and no other caller gets to the slot: one that waits for the lock goes  *)
(* on waiting.                                                             *)
(***************************************************************************)
C23_SearchHoldsRegistryLock ==
    [][\A p \in Procs :
          Searching(p) =>
              /\ lock = p
              /\ slot' = slot
              /\ slot # 0 =>
                     /\ heap'[slot].path = heap[slot].path
                     /\ heap'[slot].path # 0
                     /\ heap'[slot].total_lines = heap[slot].total_lines
                     /\ heap'[slot].index = heap[slot].index
              /\ \A q \in Procs \ {p} :
                     /\ ~HoldsLock(q) /\ ~HoldsLock(q)'
                     /\ pc[q] = "wait" => pc'[q] = "wait"]_vars

\* a search is in its loop while another caller waits for the lock with a
\* close_file or with a session to install
C23_Witness ==
    \E p, q \in Procs :
        /\ pc[p] = "match"
        /\ Searching(p)
        /\ pc[q] = "wait"
        /\ call[q].kind \in {"close", "open"}

(***************************************************************************)
(* C24: after a session is created only its cache slot changes.  No        *)
(* read_lines, mmap_search, get_total_lines or get_file_size call changes  *)
(* the path, total_lines or the index of the session (the interval is the  *)
(* fixed INDEX_INTERVAL); every call but read_lines leaves the cache slot  *)
(* as it was too, and get_total_lines answers the count the open made, at  *)
(* every call until the next open or close.                                *)
(***************************************************************************)
C24_OnlyCacheSlotChanges ==
    [][lastOp'.kind \in {"read", "search", "total_lines", "file_size"}
       => /\ reg'.path = reg.path
          /\ reg'.total_lines = reg.total_lines
          /\ reg'.index = reg.index
          /\ lastOp'.kind # "read" => reg'.cached_window = reg.cached_window
          /\ (lastOp'.kind = "total_lines" /\ IsOpen(reg))
             => /\ lastOp'.outcome = "ok"
                /\ lastOp'.value =
                       LargeFilePreviewOpen(reg.path, fs[reg.path]).total_lines]_vars

\* a search has found something in a session that has an index entry and,
\* from a read_lines call before it, a window in its cache slot
C24_Witness ==
    /\ IsOpen(reg)
    /\ lastOp.kind = "search"
    /\ lastOp.found.count > 0
    /\ reg.index # <<>>
    /\ reg.cached_window # NoWindow

(***************************************************************************)
(* C25: anchor selection.  For every start before total_lines the anchor   *)
(* is the index entry of the interval start lies in: with k the quotient   *)
(* of start by INDEX_INTERVAL, base_line is k times the interval and       *)
(* base_offset is the k-th entry of the index, which exists, or both are 0 *)
(* when k is 0; so base_line <= start < base_line + INDEX_INTERVAL.  A     *)
(* read_lines call for such a start works from that anchor.                *)
(***************************************************************************)
C25_AnchorIsNearestEntry ==
    IsOpen(reg) =>
        /\ \A start \in 0 .. reg.total_lines - 1 :
               LET a == Anchor(start, reg.index)
                   k == start \div INDEX_INTERVAL
               IN  /\ k <= Len(reg.index)
                   /\ a.base_line = k * INDEX_INTERVAL
                   /\ a.base_offset = IF k = 0 THEN 0 ELSE reg.index[k]
                   /\ a.base_line <= start
                   /\ start < a.base_line + INDEX_INTERVAL
        /\ (lastOp.kind = "read" /\ lastOp.start < reg.total_lines
               /\ lastOp.outcome = "ok")
           => lastOp.base_offset
                  = Anchor(lastOp.start, reg.index).base_offset

\* a read_lines call has worked from the second entry of the index, for a
\* start that is the last line of the file
C25_Witness ==
    /\ IsOpen(reg)
    /\ lastOp.kind = "read"
    /\ lastOp.outcome = "ok"
    /\ lastOp.start = 2 * INDEX_INTERVAL
    /\ lastOp.start = reg.total_lines - 1
    /\ Len(reg.index) = 2
    /\ lastOp.base_offset = reg.index[2]
    /\ reg.index[2] > reg.index[1]

\* what the call just made returns when its mapping call fails: the text of
\* the sequential fallback, the session and the file description being as
\* that call found them
TextByFallback ==
    ReadLinesRun([reg EXCEPT !.cached_window = NoWindow], fs,
                 lastOp.start, lastOp.count, "map_err").text

(***************************************************************************)
(* C26: for a file in which no line exceeds the ceiling, the text a        *)
(* read_lines call returns from the window it has mapped is the text the   *)
(* same call returns from the sequential fallback when the mapping fails:  *)
(* the same lines, byte for byte, with the same terminators.               *)
(***************************************************************************)
C26_WindowEqualsFallback ==
    (/\ IsOpen(reg)
     /\ lastOp.kind = "read"
     /\ lastOp.outcome = "ok"
     /\ lastOp.served = "fresh"
     /\ NoLineOverCeiling(CurrentFile))
    => lastOp.text = TextByFallback

\* the text is made of lines of the file, each followed by one newline
LinesComeFrom(text, content) ==
    /\ text # <<>> => text[Len(text)] = NL
    /\ \A i \in 1..Len(LinesOfText(text)) :
           \E k \in 0..(NaiveLineCount(content) - 1) :
               LinesOfText(text)[i] = NaiveLine(content, k)

(***************************************************************************)
(* C27: a read_lines call that has taken its clone of the session out of   *)
(* the registry completes against that session, whatever close_file or     *)
(* open_file does to the registry before it returns: the session it took   *)
(* stays alive as long as it works, its return is not 'no file open', and  *)
(* every line of the text it returns is a line of the file of the session  *)
(* it took, not one of a file opened since.                                *)
(***************************************************************************)
C27_ReadCompletesOnItsSession ==
    [][\A p \in Procs :
          InWorker(p) =>
              /\ heap[call[p].sid].path # 0
              /\ pc'[p] = "idle" =>
                     /\ call'[p].outcome # "not_open"
                     /\ call'[p].outcome = "ok" =>
                            LinesComeFrom(call'[p].text,
                                          fs[heap[call[p].sid].path])]_vars

\* a worker has stored its window and is about to read it, while the slot
\* of the registry holds a session of the other file
C27_Witness ==
    \E p \in Procs :
        /\ pc[p] = "reread"
        /\ slot # 0
        /\ slot # call[p].sid
        /\ heap[call[p].sid].path = 1
        /\ heap[slot].path = 2
        /\ heap[call[p].sid].cached_window # NoWindow

(***************************************************************************)
(* C28: with read_lines calls run one at a time on a file nothing else     *)
(* changes, no slice of a window is out of bounds.  No call panics and the *)
(* cache lock is never poisoned; a call served from a window, cached or    *)
(* fresh, found its base_offset at or after the start of that window and   *)
(* at most the window's length after it - for every start, the starts at   *)
(* or past total_lines and an anchor at the end of the file included.      *)
(***************************************************************************)
C28_WindowSlicesInBounds ==
    /\ lastOp.outcome # "panic"
    /\ IsOpen(reg) => ~reg.poisoned
    /\ (lastOp.kind = "read" /\ lastOp.served \in {"cached", "fresh"})
       => /\ reg.cached_window.off <= lastOp.base_offset
          /\ lastOp.base_offset - reg.cached_window.off
                 <= reg.cached_window.len

\* a call for a start past the last line, anchored at the end of the file,
\* has mapped the last page and sliced it at its very end
C28_Witness ==
    /\ IsOpen(reg)
    /\ lastOp.kind = "read"
    /\ lastOp.outcome = "ok"
    /\ lastOp.served = "fresh"
    /\ lastOp.start >= reg.total_lines
    /\ lastOp.base_offset = Len(CurrentFile)
    /\ lastOp.base_offset - reg.cached_window.off = reg.cached_window.len

\* the number of newlines in a text
RECURSIVE CountNL(_)
CountNL(text) ==
    IF text = <<>> THEN 0
    ELSE (IF Head(text) = NL THEN 1 ELSE 0) + CountNL(Tail(text))

(***************************************************************************)
(* C29: the text of every successful read_lines(start, count) call is a    *)
(* concatenation of at most count lines, each ended by exactly one newline *)
(* and with no other newline in it: the text is empty or ends with a       *)
(* newline and has at most count newlines.  With count 0 it is empty.  A   *)
(* last line of the file that has no newline, when a window that reaches   *)
(* the end of the file serves it, comes back with one newline after it.    *)
(***************************************************************************)
C29_ResultIsNewlineTerminatedLines ==
    (/\ IsOpen(reg)
     /\ lastOp.kind = "read"
     /\ lastOp.outcome = "ok")
    => /\ lastOp.text # <<>> => lastOp.text[Len(lastOp.text)] = NL
       /\ CountNL(lastOp.text) <= lastOp.count
       /\ lastOp.count = 0 => lastOp.text = <<>>
       /\ (/\ lastOp.served \in {"cached", "fresh"}
           /\ reg.cached_window.off + reg.cached_window.len = Len(CurrentFile)
           /\ NoLineOverCeiling(CurrentFile)
           /\ CurrentFile # <<>>
           /\ CurrentFile[Len(CurrentFile)] # NL
           /\ lastOp.start < NaiveLineCount(CurrentFile)
           /\ lastOp.start + lastOp.count >= NaiveLineCount(CurrentFile))
          => LET ls == LinesOfText(lastOp.text)
             IN  /\ ls # <<>>
                 /\ ls[Len(ls)] = NaiveLine(CurrentFile,
                                            NaiveLineCount(CurrentFile) - 1)

\* two lines have come back, the second one the last line of the file, which
\* has no newline in the file
C29_Witness ==
    /\ IsOpen(reg)
    /\ lastOp.kind = "read"
    /\ lastOp.outcome = "ok"
    /\ lastOp.count = 2
    /\ CountNL(lastOp.text) = 2
    /\ CurrentFile[Len(CurrentFile)] # NL
    /\ lastOp.start + 2 = NaiveLineCount(CurrentFile)
    /\ LinesOfText(lastOp.text)[2]
           = NaiveLine(CurrentFile, NaiveLineCount(CurrentFile) - 1)
    /\ LinesOfText(lastOp.text)[2] # <<>>

(***************************************************************************)
(* C30: for every file, the files with overlong lines included, and        *)
(* however the reads of the scan split it, the sparse index built at open  *)
(* is non-decreasing and none of its entries is more than the number of    *)
(* bytes of the file; so the offset of the anchor of every start is an     *)
(* offset within the file.                                                 *)
(***************************************************************************)
C30_IndexWithinFile ==
    IsOpen(reg) =>
        /\ \A k \in 1..Len(reg.index) :
               /\ reg.index[k] >= 0
               /\ reg.index[k] <= Len(CurrentFile)
               /\ k > 1 => reg.index[k - 1] <= reg.index[k]
        /\ \A start \in 0..(MaxChunkedFileLen + INDEX_INTERVAL) :
               Anchor(start, reg.index).base_offset <= Len(CurrentFile)

\* a file with an overlong line has been indexed, and the entry after that
\* line lies before the line that it stands for, within the file
C30_Witness ==
    /\ IsOpen(reg)
    /\ ~NoLineOverCeiling(CurrentFile)
    /\ Len(reg.index) >= 1
    /\ NaiveLineCount(CurrentFile) > INDEX_INTERVAL
    /\ reg.index[1] < NaiveLineStart(CurrentFile, INDEX_INTERVAL)
    /\ reg.index[1] > 0

=============================================================================
